---- MODULE Spec2Model ----
(***************************************************************************)
(* Model of the litua document compiler front-end: the streaming lexer     *)
(* (src/src/lexer.rs) and the recursive-descent parser (src/src/parser.rs).*)
(*                                                                         *)
(* A source is a sequence of Unicode scalars.  A scalar is written as a    *)
(* string; len_utf8 gives the number of bytes of its UTF-8 encoding, so    *)
(* that byte offsets and scalar indices differ as they do in the code.     *)
(*                                                                         *)
(* The lexer is a one-pass reader: it never looks ahead of the scalar it   *)
(* reads and it uses source_byte_length only once the scalars are          *)
(* exhausted.  A source is therefore a stem (one of Stems) followed by a   *)
(* tail of at most MaxTail scalars of Alphabet, and the tail is drawn      *)
(* scalar by scalar when the character iterator is asked for it.           *)
(***************************************************************************)
EXTENDS Integers, Sequences, FiniteSets, TLC

----------------------------------------------------------------------------
(* Bounds of the model *)

\* number of scalars that may follow the stem of a source
MaxTail == 3
\* number of times next() is polled after it has returned None
MaxIdlePolls == 2
\* longest text, in scalars, that the line iterator is given
MaxText == 3
\* longest text, in scalars, that an error is resolved against
MaxResolved == 2

----------------------------------------------------------------------------
(* Scalars *)

OPEN_FUNCTION == "{"
CLOSE_FUNCTION == "}"
OPEN_ARG == "["
CLOSE_ARG == "]"
ASSIGN == "="
OPEN_RAW == "<"
CLOSE_RAW == ">"

\* U+03BB GREEK SMALL LETTER LAMDA, a scalar of two bytes
SMALL_LAMDA == "U+03BB"
\* U+2028 LINE SEPARATOR, a whitespace scalar of three bytes
LINE_SEPARATOR == "U+2028"
\* U+0085 NEXT LINE, a whitespace scalar of two bytes
NEXT_LINE == "U+0085"

\* the other line terminators: U+000A, U+000B, U+000C, U+000D of one byte
\* each, and U+2029 PARAGRAPH SEPARATOR, a whitespace scalar of three bytes
LINE_FEED == "\n"
LINE_TABULATION == "U+000B"
FORM_FEED == "U+000C"
CARRIAGE_RETURN == "\r"
PARAGRAPH_SEPARATOR == "U+2029"

\* char::len_utf8
len_utf8(c) ==
    CASE c = SMALL_LAMDA -> 2
      [] c = NEXT_LINE -> 2
      [] c = LINE_SEPARATOR -> 3
      [] c = PARAGRAPH_SEPARATOR -> 3
      [] OTHER -> 1

\* char::is_whitespace (Unicode White_Space), on the scalars of the model
is_whitespace(c) ==
    c \in {" ", "\t", LINE_FEED, LINE_TABULATION, FORM_FEED, CARRIAGE_RETURN,
           NEXT_LINE, LINE_SEPARATOR, PARAGRAPH_SEPARATOR}

\* str::len: the byte length of a sequence of scalars, the sum of their
\* len_utf8 (one byte each, and one more for each scalar of at least w bytes)
str_len(s) ==
    Len(s) + Cardinality({i \in 1..Len(s) : len_utf8(s[i]) >= 2})
           + Cardinality({i \in 1..Len(s) : len_utf8(s[i]) >= 3})
           + Cardinality({i \in 1..Len(s) : len_utf8(s[i]) >= 4})

\* the scalars a tail is drawn from: the seven syntactic characters, one
\* whitespace, one ordinary one-byte scalar and one ordinary two-byte scalar
Alphabet == {OPEN_FUNCTION, CLOSE_FUNCTION, OPEN_ARG, CLOSE_ARG, ASSIGN,
             OPEN_RAW, CLOSE_RAW, " ", "a", SMALL_LAMDA}

\* n copies of the scalar c
Repeat(c, n) == [i \in 1..n |-> c]

----------------------------------------------------------------------------
(* Option, tokens, errors *)

None == [tag |-> "None"]
Some(v) == [tag |-> "Some", val |-> v]
is_some(o) == o.tag = "Some"

\* usize::MAX; the code only compares it for equality with byte offsets, so
\* any value above every byte offset of the model behaves the same
\* (TLC integers are 32 bits wide)
UsizeMax == 2147483647
START_TOKEN_AT_NEXT_BYTEOFFSET == UsizeMax
START_AND_EMIT_TOKEN_AT_NEXT_BYTEOFFSET == UsizeMax - 1

\* width of the u8 delimiter counters
U8 == 256
\* the longest delimiter of a raw string
MaxRawDelimiter == 126
\* a limit that is off by one
RawDelimiterLimitOffByOne == MaxRawDelimiter + 2
\* the delimiter length at which StartRaw gives up
RawDelimiterLimit == 127

OffsetToken(kind, offset) == [kind |-> kind, offset |-> offset]
RangeToken(kind, start, end) == [kind |-> kind, start |-> start, end |-> end]
WhitespaceToken(offset, c) == [kind |-> "Whitespace", offset |-> offset, chr |-> c]

RangeKinds == {"Call", "ArgKey", "BeginRaw", "EndRaw", "Text"}
OffsetKinds == {"BeginFunction", "BeginArgValue", "EndArgValue", "BeginArgs", "EndArgs",
                "BeginContent", "EndContent", "EndFunction", "EndOfFile", "Whitespace"}

UnbalancedParentheses(msg, offset) == [kind |-> "UnbalancedParentheses", msg |-> msg, offset |-> offset]
InvalidSyntax(msg, offset) == [kind |-> "InvalidSyntax", msg |-> msg, offset |-> offset]

MsgEmptyCall == "call '{' was immediately closed by '}', but empty calls are not allowed"
MsgRawTooLong == "raw string delimiter must not exceed length 126"
MsgRawStart == "unexpected character while reading raw string start"
MsgRawEnd == "unexpected character - only '}' after a '>' sequence terminates a raw string"
MsgEmptyKey == "argument key must not be an empty string"
MsgAfterArgs == "after ending arguments with ']', I require a whitespace character to continue with content"
MsgNeverStarted == "scope ended but it never started"

\* items of the iterator: Some(Ok(token)), Some(Err(error)), None
OkItem(tok) == [tag |-> "Ok", tok |-> tok]
ErrItem(e) == [tag |-> "Err", err |-> e]
NoneItem == [tag |-> "None"]

----------------------------------------------------------------------------
(* State *)

VARIABLES
    source,                 \* Lexer.source, as far as it is drawn
    drawn,                  \* number of tail scalars drawn so far
    closed,                 \* the character iterator has returned None
    chars,                  \* CharIndices: index of the next scalar and its byte offset
    state,                  \* LexingIterator.state
    token_start,
    token_function_start,
    token_rawcontent_start,
    raw_delimiter_length,
    raw_delimiter_read,
    stack,                  \* scope stack, top is the last element
    next_tokens,            \* queue of pending tokens, front is the first element
    occured_error,          \* Option<Error>
    panicked,               \* pop_scope reached its panic!
    in_next,                \* the loop of next() is between two iterations
    out,                    \* history: the items next() has returned
    seen,                   \* history: seen[i] tells how scalar i was read, see Read
    queued,                 \* history: every token pushed to next_tokens, in order
    recorded,               \* history: the error as it was recorded, never taken
    tree,                   \* Parser.tree
    consumed,               \* what consume_iter has returned, None before it is called
    pulled,                 \* how many items peekable_iter has pulled from the iterator
    line_source,            \* LinesWithByteIndices.0, the string that is indexed
    line_start,             \* LinesWithByteIndices.1, the start of the next line
    lines,                  \* history: the items LinesWithByteIndices::next has returned
    located,                \* what get_line_identifier_at_byte has returned for an offset
    displayed               \* an error, resolved by format_with_source, as Display shows it

iterator == <<state, token_start, token_function_start, token_rawcontent_start,
              raw_delimiter_length, raw_delimiter_read, stack, next_tokens,
              occured_error, panicked>>
input == <<source, drawn, closed, chars>>
parser == <<tree, consumed, pulled>>
lineindex == <<line_source, line_start, lines, located, displayed>>
vars == <<source, drawn, closed, chars, state, token_start, token_function_start,
          token_rawcontent_start, raw_delimiter_length, raw_delimiter_read, stack,
          next_tokens, occured_error, panicked, in_next, out, seen, queued, recorded,
          tree, consumed, pulled, line_source, line_start, lines, located,
          displayed>>

\* the LexingIterator as one value
Self == [state |-> state,
         token_start |-> token_start,
         token_function_start |-> token_function_start,
         token_rawcontent_start |-> token_rawcontent_start,
         raw_delimiter_length |-> raw_delimiter_length,
         raw_delimiter_read |-> raw_delimiter_read,
         stack |-> stack,
         next_tokens |-> next_tokens,
         occured_error |-> occured_error,
         panicked |-> panicked]

\* LexingIterator::new
NewIterator == [state |-> "ReadingContent",
                token_start |-> 0,
                token_function_start |-> 0,
                token_rawcontent_start |-> 0,
                raw_delimiter_length |-> 0,
                raw_delimiter_read |-> 0,
                stack |-> <<"Content">>,
                next_tokens |-> <<>>,
                occured_error |-> None,
                panicked |-> FALSE]

\* self.source_byte_length, read only once the source is complete
source_byte_length == str_len(source)

----------------------------------------------------------------------------
(* Lexer: scope stack *)

push_back(l, tok) == [l EXCEPT !.next_tokens = Append(@, tok)]

\* push_scope that pushes Function whatever scope is opened
push_scope_function(l, sc, byte_offset) ==
    [l EXCEPT !.token_start = byte_offset, !.stack = Append(@, "Function")]

push_scope(l, sc, byte_offset) ==
    [l EXCEPT !.token_start = byte_offset, !.stack = Append(@, sc)]

\* the None arms of pop_scope without the change of state
ScopeNeverStarted_continuing(l, byte_offset) ==
    [l EXCEPT !.occured_error = Some(UnbalancedParentheses(MsgNeverStarted, byte_offset))]

\* both "never started" branches of pop_scope
ScopeNeverStarted(l, byte_offset) ==
    [l EXCEPT !.state = "Terminated",
              !.occured_error = Some(UnbalancedParentheses(MsgNeverStarted, byte_offset))]

RECURSIVE pop_scope(_, _)
\* pop_scope that pops one scope only when a content ends
pop_scope_single(l, byte_offset) ==
    IF l.stack = <<>> THEN ScopeNeverStarted(l, byte_offset)
    ELSE
      LET old_top == l.stack[Len(l.stack)]
          l1 == [l EXCEPT !.stack = SubSeq(@, 1, Len(@) - 1)]
      IN IF l1.stack = <<>> THEN ScopeNeverStarted(l1, byte_offset)
         ELSE
           LET new_top == l1.stack[Len(l1.stack)]
           IN CASE old_top = "ArgumentValue" /\ new_top = "Function" ->
                     [l1 EXCEPT !.state = "FoundArgumentClosing", !.token_start = byte_offset]
                [] old_top = "Content" /\ new_top = "Function" ->
                     [push_back(l1, OffsetToken("EndFunction", byte_offset))
                        EXCEPT !.token_start = START_TOKEN_AT_NEXT_BYTEOFFSET]
                [] old_top = "Function" /\ new_top = "ArgumentValue" ->
                     [l1 EXCEPT !.state = "ReadingArgumentValue",
                                !.token_start = START_TOKEN_AT_NEXT_BYTEOFFSET]
                [] old_top = "Function" /\ new_top = "Content" ->
                     [l1 EXCEPT !.state = "ReadingContent"]
                [] old_top = "RawString" /\ new_top = "Content" ->
                     [l1 EXCEPT !.state = "ReadingContent"]
                [] old_top = "RawString" /\ new_top = "ArgumentValue" ->
                     [l1 EXCEPT !.state = "ReadingArgumentValue",
                                !.token_start = START_TOKEN_AT_NEXT_BYTEOFFSET]
                [] OTHER -> [l1 EXCEPT !.panicked = TRUE]

\* pop_scope that resumes in ReadingContent below every closed call
pop_scope_to_content(l, byte_offset) ==
    IF l.stack = <<>> THEN ScopeNeverStarted(l, byte_offset)
    ELSE
      LET old_top == l.stack[Len(l.stack)]
          l1 == [l EXCEPT !.stack = SubSeq(@, 1, Len(@) - 1)]
      IN IF l1.stack = <<>> THEN ScopeNeverStarted(l1, byte_offset)
         ELSE
           LET new_top == l1.stack[Len(l1.stack)]
           IN CASE old_top = "ArgumentValue" /\ new_top = "Function" ->
                     [l1 EXCEPT !.state = "FoundArgumentClosing", !.token_start = byte_offset]
                [] old_top = "Content" /\ new_top = "Function" ->
                     [pop_scope(push_back(l1, OffsetToken("EndFunction", byte_offset)), byte_offset)
                        EXCEPT !.token_start = START_TOKEN_AT_NEXT_BYTEOFFSET]
                [] old_top = "Function" /\ new_top = "ArgumentValue" ->
                     [l1 EXCEPT !.state = "ReadingContent",
                                !.token_start = START_TOKEN_AT_NEXT_BYTEOFFSET]
                [] old_top = "Function" /\ new_top = "Content" ->
                     [l1 EXCEPT !.state = "ReadingContent"]
                [] old_top = "RawString" /\ new_top = "Content" ->
                     [l1 EXCEPT !.state = "ReadingContent"]
                [] old_top = "RawString" /\ new_top = "ArgumentValue" ->
                     [l1 EXCEPT !.state = "ReadingArgumentValue",
                                !.token_start = START_TOKEN_AT_NEXT_BYTEOFFSET]
                [] OTHER -> [l1 EXCEPT !.panicked = TRUE]

pop_scope(l, byte_offset) ==
    IF l.stack = <<>> THEN ScopeNeverStarted(l, byte_offset)
    ELSE
      LET old_top == l.stack[Len(l.stack)]
          l1 == [l EXCEPT !.stack = SubSeq(@, 1, Len(@) - 1)]
      IN IF l1.stack = <<>> THEN ScopeNeverStarted(l1, byte_offset)
         ELSE
           LET new_top == l1.stack[Len(l1.stack)]
           IN CASE old_top = "ArgumentValue" /\ new_top = "Function" ->
                     [l1 EXCEPT !.state = "FoundArgumentClosing", !.token_start = byte_offset]
                [] old_top = "Content" /\ new_top = "Function" ->
                     [pop_scope(push_back(l1, OffsetToken("EndFunction", byte_offset)), byte_offset)
                        EXCEPT !.token_start = START_TOKEN_AT_NEXT_BYTEOFFSET]
                [] old_top = "Function" /\ new_top = "ArgumentValue" ->
                     [l1 EXCEPT !.state = "ReadingArgumentValue",
                                !.token_start = START_TOKEN_AT_NEXT_BYTEOFFSET]
                [] old_top = "Function" /\ new_top = "Content" ->
                     [l1 EXCEPT !.state = "ReadingContent"]
                [] old_top = "RawString" /\ new_top = "Content" ->
                     [l1 EXCEPT !.state = "ReadingContent"]
                [] old_top = "RawString" /\ new_top = "ArgumentValue" ->
                     [l1 EXCEPT !.state = "ReadingArgumentValue",
                                !.token_start = START_TOKEN_AT_NEXT_BYTEOFFSET]
                [] OTHER -> [l1 EXCEPT !.panicked = TRUE]

----------------------------------------------------------------------------
(* Lexer: progress(), one operator per arm of `match self.state` *)

\* on_ReadingContent that never emits BeginContent
on_ReadingContent_without_begin(l, byte_offset, chr) ==
    LET l1 == IF l.token_start \in {START_AND_EMIT_TOKEN_AT_NEXT_BYTEOFFSET,
                                    START_TOKEN_AT_NEXT_BYTEOFFSET}
              THEN [l EXCEPT !.raw_delimiter_read = 0, !.token_start = byte_offset]
              ELSE l
    IN CASE chr = OPEN_FUNCTION ->
              [l1 EXCEPT !.token_start = byte_offset,
                         !.token_function_start = byte_offset,
                         !.state = "FoundCallOpening"]
         [] chr = CLOSE_FUNCTION ->
              pop_scope([push_back(l1, OffsetToken("EndContent", byte_offset))
                           EXCEPT !.token_start = byte_offset,
                                  !.token_function_start = START_TOKEN_AT_NEXT_BYTEOFFSET],
                        byte_offset)
         [] OTHER -> [l1 EXCEPT !.state = "ReadingContentText"]

on_ReadingContent(l, byte_offset, chr) ==
    LET l1 == IF l.token_start = START_AND_EMIT_TOKEN_AT_NEXT_BYTEOFFSET
              THEN [push_back(l, OffsetToken("BeginContent", byte_offset))
                      EXCEPT !.raw_delimiter_read = 0, !.token_start = byte_offset]
              ELSE IF l.token_start = START_TOKEN_AT_NEXT_BYTEOFFSET
              THEN [l EXCEPT !.raw_delimiter_read = 0, !.token_start = byte_offset]
              ELSE l
    IN CASE chr = OPEN_FUNCTION ->
              [l1 EXCEPT !.token_start = byte_offset,
                         !.token_function_start = byte_offset,
                         !.state = "FoundCallOpening"]
         [] chr = CLOSE_FUNCTION ->
              pop_scope([push_back(l1, OffsetToken("EndContent", byte_offset))
                           EXCEPT !.token_start = byte_offset,
                                  !.token_function_start = START_TOKEN_AT_NEXT_BYTEOFFSET],
                        byte_offset)
         [] OTHER -> [l1 EXCEPT !.state = "ReadingContentText"]

on_ReadingContentText(l, byte_offset, chr) ==
    CASE chr = OPEN_FUNCTION ->
           [push_back(l, RangeToken("Text", l.token_start, byte_offset))
              EXCEPT !.token_start = byte_offset,
                     !.token_function_start = byte_offset,
                     !.state = "FoundCallOpening"]
      [] chr = CLOSE_FUNCTION ->
           pop_scope([push_back(push_back(l, RangeToken("Text", l.token_start, byte_offset)),
                                OffsetToken("EndContent", byte_offset))
                        EXCEPT !.token_start = byte_offset,
                               !.token_function_start = START_TOKEN_AT_NEXT_BYTEOFFSET],
                     byte_offset)
      [] OTHER -> l

on_ReadingArgumentValue(l, byte_offset, chr) ==
    LET l1 == IF l.token_start = START_AND_EMIT_TOKEN_AT_NEXT_BYTEOFFSET
              THEN [push_back(l, OffsetToken("BeginArgValue", byte_offset))
                      EXCEPT !.token_start = byte_offset]
              ELSE IF l.token_start = START_TOKEN_AT_NEXT_BYTEOFFSET
              THEN [l EXCEPT !.token_start = byte_offset]
              ELSE l
    IN CASE chr = OPEN_FUNCTION ->
              [l1 EXCEPT !.token_start = byte_offset,
                         !.token_function_start = byte_offset,
                         !.state = "FoundCallOpening"]
         [] chr = CLOSE_ARG ->
              pop_scope([push_back(l1, OffsetToken("EndArgValue", byte_offset))
                           EXCEPT !.token_start = byte_offset],
                        byte_offset)
         [] OTHER -> [l1 EXCEPT !.state = "ReadingArgumentValueText"]

\* the pending text of an argument value, pushed unless it is empty
ArgumentValueText(l, byte_offset) ==
    IF l.token_start # START_TOKEN_AT_NEXT_BYTEOFFSET /\ l.token_start # byte_offset
    THEN push_back(l, RangeToken("Text", l.token_start, byte_offset))
    ELSE l

\* on_ReadingArgumentValueText that lets a "}" end the value as a "]" does
on_ReadingArgumentValueText_brace_closes(l, byte_offset, chr) ==
    CASE chr = OPEN_FUNCTION ->
           [ArgumentValueText(l, byte_offset)
              EXCEPT !.token_start = byte_offset,
                     !.token_function_start = byte_offset,
                     !.state = "FoundCallOpening"]
      [] chr \in {CLOSE_ARG, CLOSE_FUNCTION} ->
           pop_scope([push_back(ArgumentValueText(l, byte_offset),
                                OffsetToken("EndArgValue", byte_offset))
                        EXCEPT !.token_start = byte_offset],
                     byte_offset)
      [] OTHER ->
           IF l.token_start = START_TOKEN_AT_NEXT_BYTEOFFSET
           THEN [l EXCEPT !.token_start = byte_offset]
           ELSE l

on_ReadingArgumentValueText(l, byte_offset, chr) ==
    CASE chr = OPEN_FUNCTION ->
           [ArgumentValueText(l, byte_offset)
              EXCEPT !.token_start = byte_offset,
                     !.token_function_start = byte_offset,
                     !.state = "FoundCallOpening"]
      [] chr = CLOSE_ARG ->
           pop_scope([push_back(ArgumentValueText(l, byte_offset),
                                OffsetToken("EndArgValue", byte_offset))
                        EXCEPT !.token_start = byte_offset],
                     byte_offset)
      [] OTHER ->
           IF l.token_start = START_TOKEN_AT_NEXT_BYTEOFFSET
           THEN [l EXCEPT !.token_start = byte_offset]
           ELSE l

\* on_FoundCallOpening that takes "}" for the first scalar of a call name
on_FoundCallOpening_no_empty_check(l, byte_offset, chr) ==
    CASE chr = OPEN_RAW ->
           [l EXCEPT !.token_start = byte_offset,
                     !.raw_delimiter_length = 1,
                     !.state = "StartRaw"]
      [] OTHER ->
           [push_back(push_scope(l, "Function", l.token_start),
                      OffsetToken("BeginFunction", l.token_start))
              EXCEPT !.token_start = byte_offset,
                     !.state = "ReadingCallName"]

\* on_FoundCallOpening that starts the call name behind its first scalar
on_FoundCallOpening_name_behind(l, byte_offset, chr) ==
    CASE chr = CLOSE_FUNCTION ->
           [push_back(l, OffsetToken("BeginFunction", l.token_start))
              EXCEPT !.occured_error = Some(InvalidSyntax(MsgEmptyCall, byte_offset)),
                     !.state = "Terminated"]
      [] chr = OPEN_RAW ->
           [l EXCEPT !.token_start = byte_offset,
                     !.raw_delimiter_length = 1,
                     !.state = "StartRaw"]
      [] OTHER ->
           [push_back(push_scope(l, "Function", l.token_start),
                      OffsetToken("BeginFunction", l.token_start))
              EXCEPT !.token_start = byte_offset + len_utf8(chr),
                     !.state = "ReadingCallName"]

on_FoundCallOpening(l, byte_offset, chr) ==
    CASE chr = CLOSE_FUNCTION ->
           [push_back(l, OffsetToken("BeginFunction", l.token_start))
              EXCEPT !.occured_error = Some(InvalidSyntax(MsgEmptyCall, byte_offset)),
                     !.state = "Terminated"]
      [] chr = OPEN_RAW ->
           [l EXCEPT !.token_start = byte_offset,
                     !.raw_delimiter_length = 1,
                     !.state = "StartRaw"]
      [] OTHER ->
           [push_back(push_scope(l, "Function", l.token_start),
                      OffsetToken("BeginFunction", l.token_start))
              EXCEPT !.token_start = byte_offset,
                     !.state = "ReadingCallName"]

\* on_StartRaw that takes the whitespace after the "<" run for an unexpected
\* character
on_StartRaw_whitespace_rejected(l, byte_offset, chr) ==
    CASE chr = OPEN_RAW ->
           LET l1 == [l EXCEPT !.raw_delimiter_length = (@ + 1) % U8]
           IN IF l1.raw_delimiter_length = RawDelimiterLimit
              THEN [l1 EXCEPT !.occured_error = Some(InvalidSyntax(MsgRawTooLong, byte_offset)),
                              !.state = "Terminated"]
              ELSE l1
      [] OTHER ->
           [l EXCEPT !.occured_error = Some(InvalidSyntax(MsgRawStart, byte_offset)),
                     !.state = "Terminated"]

on_StartRaw(l, byte_offset, chr) ==
    CASE chr = OPEN_RAW ->
           LET l1 == [l EXCEPT !.raw_delimiter_length = (@ + 1) % U8]
           IN IF l1.raw_delimiter_length = RawDelimiterLimit
              THEN [l1 EXCEPT !.occured_error = Some(InvalidSyntax(MsgRawTooLong, byte_offset)),
                              !.state = "Terminated"]
              ELSE l1
      [] is_whitespace(chr) ->
           LET l1 == [l EXCEPT !.raw_delimiter_read = 0]
               l2 == push_back(l1, RangeToken("BeginRaw",
                                              l1.token_function_start + len_utf8(OPEN_FUNCTION),
                                              byte_offset))
               l3 == push_back(l2, WhitespaceToken(byte_offset, chr))
           IN [push_scope(l3, "RawString", byte_offset)
                 EXCEPT !.token_start = START_TOKEN_AT_NEXT_BYTEOFFSET,
                        !.token_rawcontent_start = START_TOKEN_AT_NEXT_BYTEOFFSET,
                        !.state = "ReadingRaw"]
      [] OTHER ->
           [l EXCEPT !.occured_error = Some(InvalidSyntax(MsgRawStart, byte_offset)),
                     !.state = "Terminated"]

\* on_ReadingRaw that forgets to reset the counter of ">"
on_ReadingRaw_no_reset(l, byte_offset, chr) ==
    LET l1 == IF l.token_start = START_TOKEN_AT_NEXT_BYTEOFFSET
              THEN [l EXCEPT !.token_rawcontent_start = byte_offset,
                             !.token_start = byte_offset]
              ELSE l
    IN IF chr = CLOSE_RAW
       THEN LET l2 == [l1 EXCEPT !.raw_delimiter_read = (@ + 1) % U8]
                l3 == IF l2.raw_delimiter_read = 1
                      THEN [l2 EXCEPT !.token_start = byte_offset]
                      ELSE l2
            IN IF l3.raw_delimiter_read = l3.raw_delimiter_length
               THEN [l3 EXCEPT !.state = "EndRaw"]
               ELSE l3
       ELSE l1

\* on_ReadingRaw that opens a call at a "{" in the body
on_ReadingRaw_recursing(l, byte_offset, chr) ==
    LET l1 == IF l.token_start = START_TOKEN_AT_NEXT_BYTEOFFSET
              THEN [l EXCEPT !.token_rawcontent_start = byte_offset,
                             !.token_start = byte_offset]
              ELSE l
    IN IF chr = CLOSE_RAW
       THEN LET l2 == [l1 EXCEPT !.raw_delimiter_read = (@ + 1) % U8]
                l3 == IF l2.raw_delimiter_read = 1
                      THEN [l2 EXCEPT !.token_start = byte_offset]
                      ELSE l2
            IN IF l3.raw_delimiter_read = l3.raw_delimiter_length
               THEN [l3 EXCEPT !.state = "EndRaw"]
               ELSE l3
       ELSE IF chr = OPEN_FUNCTION
       THEN [push_back(push_scope(l1, "Function", byte_offset),
                       OffsetToken("BeginFunction", byte_offset))
               EXCEPT !.raw_delimiter_read = 0]
       ELSE [l1 EXCEPT !.raw_delimiter_read = 0]

\* on_ReadingRaw that moves token_start with every ">" of a run
on_ReadingRaw_last_of_run(l, byte_offset, chr) ==
    LET l1 == IF l.token_start = START_TOKEN_AT_NEXT_BYTEOFFSET
              THEN [l EXCEPT !.token_rawcontent_start = byte_offset,
                             !.token_start = byte_offset]
              ELSE l
    IN IF chr = CLOSE_RAW
       THEN LET l2 == [l1 EXCEPT !.raw_delimiter_read = (@ + 1) % U8]
                l3 == [l2 EXCEPT !.token_start = byte_offset]
            IN IF l3.raw_delimiter_read = l3.raw_delimiter_length
               THEN [l3 EXCEPT !.state = "EndRaw"]
               ELSE l3
       ELSE [l1 EXCEPT !.raw_delimiter_read = 0]

on_ReadingRaw(l, byte_offset, chr) ==
    LET l1 == IF l.token_start = START_TOKEN_AT_NEXT_BYTEOFFSET
              THEN [l EXCEPT !.token_rawcontent_start = byte_offset,
                             !.token_start = byte_offset]
              ELSE l
    IN IF chr = CLOSE_RAW
       THEN LET l2 == [l1 EXCEPT !.raw_delimiter_read = (@ + 1) % U8]
                l3 == IF l2.raw_delimiter_read = 1
                      THEN [l2 EXCEPT !.token_start = byte_offset]
                      ELSE l2
            IN IF l3.raw_delimiter_read = l3.raw_delimiter_length
               THEN [l3 EXCEPT !.state = "EndRaw"]
               ELSE l3
       ELSE [l1 EXCEPT !.raw_delimiter_read = 0]

\* on_EndRaw that starts the Text at the "{" of the raw string
on_EndRaw_text_from_opening(l, byte_offset, chr) ==
    IF chr = CLOSE_FUNCTION
    THEN LET l1 == push_back(l, RangeToken("Text", l.token_function_start, l.token_start))
             l2 == push_back(l1, RangeToken("EndRaw", l1.token_start, byte_offset))
         IN pop_scope([l2 EXCEPT !.token_start = START_TOKEN_AT_NEXT_BYTEOFFSET,
                                 !.token_function_start = START_TOKEN_AT_NEXT_BYTEOFFSET,
                                 !.token_rawcontent_start = START_TOKEN_AT_NEXT_BYTEOFFSET],
                      byte_offset)
    ELSE [l EXCEPT !.occured_error = Some(InvalidSyntax(MsgRawEnd, byte_offset)),
                   !.state = "Terminated"]

on_EndRaw(l, byte_offset, chr) ==
    IF chr = CLOSE_FUNCTION
    THEN LET l1 == push_back(l, RangeToken("Text", l.token_rawcontent_start, l.token_start))
             l2 == push_back(l1, RangeToken("EndRaw", l1.token_start, byte_offset))
         IN pop_scope([l2 EXCEPT !.token_start = START_TOKEN_AT_NEXT_BYTEOFFSET,
                                 !.token_function_start = START_TOKEN_AT_NEXT_BYTEOFFSET,
                                 !.token_rawcontent_start = START_TOKEN_AT_NEXT_BYTEOFFSET],
                      byte_offset)
    ELSE [l EXCEPT !.occured_error = Some(InvalidSyntax(MsgRawEnd, byte_offset)),
                   !.state = "Terminated"]

on_ReadingCallName(l, byte_offset, chr) ==
    CASE chr = CLOSE_FUNCTION ->
           LET l1 == push_back(l, RangeToken("Call", l.token_start, byte_offset))
               l2 == push_back(l1, OffsetToken("EndFunction", byte_offset))
           IN pop_scope([l2 EXCEPT !.token_start = START_TOKEN_AT_NEXT_BYTEOFFSET,
                                   !.token_function_start = START_TOKEN_AT_NEXT_BYTEOFFSET],
                        byte_offset)
      [] is_whitespace(chr) ->
           LET l1 == push_back(l, RangeToken("Call", l.token_start, byte_offset))
               l2 == push_back(l1, WhitespaceToken(byte_offset, chr))
           IN [push_scope(l2, "Content", byte_offset)
                 EXCEPT !.token_start = START_AND_EMIT_TOKEN_AT_NEXT_BYTEOFFSET,
                        !.state = "ReadingContent"]
      [] chr = OPEN_ARG ->
           LET l1 == push_back(l, RangeToken("Call", l.token_start, byte_offset))
               l2 == push_back(l1, OffsetToken("BeginArgs", byte_offset))
           IN [l2 EXCEPT !.token_start = START_TOKEN_AT_NEXT_BYTEOFFSET,
                         !.state = "FoundArgumentOpening"]
      [] OTHER -> l

\* on_FoundArgumentOpening that accepts an empty key
on_FoundArgumentOpening_no_empty_check(l, byte_offset, chr) ==
    CASE chr = ASSIGN ->
           [push_scope(push_back(l, RangeToken("ArgKey",
                                               IF l.token_start = START_TOKEN_AT_NEXT_BYTEOFFSET
                                               THEN byte_offset ELSE l.token_start,
                                               byte_offset)),
                       "ArgumentValue", byte_offset)
              EXCEPT !.token_start = START_AND_EMIT_TOKEN_AT_NEXT_BYTEOFFSET,
                     !.state = "ReadingArgumentValue"]
      [] chr # ASSIGN /\ l.token_start = START_TOKEN_AT_NEXT_BYTEOFFSET ->
           [l EXCEPT !.token_start = byte_offset]
      [] OTHER -> l

\* on_FoundArgumentOpening that takes a "=" right behind the "[" for the
\* first scalar of the key
on_FoundArgumentOpening_assign_in_key(l, byte_offset, chr) ==
    CASE chr = ASSIGN /\ l.token_start # START_TOKEN_AT_NEXT_BYTEOFFSET ->
           [push_scope(push_back(l, RangeToken("ArgKey", l.token_start, byte_offset)),
                       "ArgumentValue", byte_offset)
              EXCEPT !.token_start = START_AND_EMIT_TOKEN_AT_NEXT_BYTEOFFSET,
                     !.state = "ReadingArgumentValue"]
      [] l.token_start = START_TOKEN_AT_NEXT_BYTEOFFSET ->
           [l EXCEPT !.token_start = byte_offset]
      [] OTHER -> l

on_FoundArgumentOpening(l, byte_offset, chr) ==
    CASE chr = ASSIGN /\ l.token_start = START_TOKEN_AT_NEXT_BYTEOFFSET ->
           [l EXCEPT !.occured_error = Some(InvalidSyntax(MsgEmptyKey, byte_offset)),
                     !.state = "Terminated"]
      [] chr = ASSIGN /\ l.token_start # START_TOKEN_AT_NEXT_BYTEOFFSET ->
           [push_scope(push_back(l, RangeToken("ArgKey", l.token_start, byte_offset)),
                       "ArgumentValue", byte_offset)
              EXCEPT !.token_start = START_AND_EMIT_TOKEN_AT_NEXT_BYTEOFFSET,
                     !.state = "ReadingArgumentValue"]
      [] chr # ASSIGN /\ l.token_start = START_TOKEN_AT_NEXT_BYTEOFFSET ->
           [l EXCEPT !.token_start = byte_offset]
      [] OTHER -> l

\* on_FoundArgumentClosing that lets any scalar but "[" and "}" start the content
on_FoundArgumentClosing_lenient(l, byte_offset, chr) ==
    CASE chr = OPEN_ARG ->
           [l EXCEPT !.token_start = START_TOKEN_AT_NEXT_BYTEOFFSET,
                     !.state = "FoundArgumentOpening"]
      [] chr = CLOSE_FUNCTION ->
           LET l1 == push_back(l, OffsetToken("EndArgs", l.token_start))
               l2 == pop_scope(l1, byte_offset)
               l3 == [l2 EXCEPT !.token_start = START_TOKEN_AT_NEXT_BYTEOFFSET,
                                !.token_function_start = START_TOKEN_AT_NEXT_BYTEOFFSET]
           IN push_back(l3, OffsetToken("EndFunction", byte_offset))
      [] OTHER ->
           LET l1 == push_back(l, OffsetToken("EndArgs", l.token_start))
               l2 == push_back(l1, WhitespaceToken(byte_offset, chr))
           IN [push_scope(l2, "Content", byte_offset)
                 EXCEPT !.token_start = START_AND_EMIT_TOKEN_AT_NEXT_BYTEOFFSET,
                        !.token_rawcontent_start = START_TOKEN_AT_NEXT_BYTEOFFSET,
                        !.state = "ReadingContent"]

\* on_FoundArgumentClosing whose last arm records the error and lexes on
on_FoundArgumentClosing_not_terminating(l, byte_offset, chr) ==
    CASE chr = OPEN_ARG ->
           [l EXCEPT !.token_start = START_TOKEN_AT_NEXT_BYTEOFFSET,
                     !.state = "FoundArgumentOpening"]
      [] chr = CLOSE_FUNCTION ->
           LET l1 == push_back(l, OffsetToken("EndArgs", l.token_start))
               l2 == pop_scope(l1, byte_offset)
               l3 == [l2 EXCEPT !.token_start = START_TOKEN_AT_NEXT_BYTEOFFSET,
                                !.token_function_start = START_TOKEN_AT_NEXT_BYTEOFFSET]
           IN push_back(l3, OffsetToken("EndFunction", byte_offset))
      [] is_whitespace(chr) ->
           LET l1 == push_back(l, OffsetToken("EndArgs", l.token_start))
               l2 == push_back(l1, WhitespaceToken(byte_offset, chr))
           IN [push_scope(l2, "Content", byte_offset)
                 EXCEPT !.token_start = START_AND_EMIT_TOKEN_AT_NEXT_BYTEOFFSET,
                        !.token_rawcontent_start = START_TOKEN_AT_NEXT_BYTEOFFSET,
                        !.state = "ReadingContent"]
      [] OTHER ->
           [l EXCEPT !.occured_error = Some(InvalidSyntax(MsgAfterArgs, byte_offset))]

on_FoundArgumentClosing(l, byte_offset, chr) ==
    CASE chr = OPEN_ARG ->
           [l EXCEPT !.token_start = START_TOKEN_AT_NEXT_BYTEOFFSET,
                     !.state = "FoundArgumentOpening"]
      [] chr = CLOSE_FUNCTION ->
           LET l1 == push_back(l, OffsetToken("EndArgs", l.token_start))
               l2 == pop_scope(l1, byte_offset)
               l3 == [l2 EXCEPT !.token_start = START_TOKEN_AT_NEXT_BYTEOFFSET,
                                !.token_function_start = START_TOKEN_AT_NEXT_BYTEOFFSET]
           IN push_back(l3, OffsetToken("EndFunction", byte_offset))
      [] is_whitespace(chr) ->
           LET l1 == push_back(l, OffsetToken("EndArgs", l.token_start))
               l2 == push_back(l1, WhitespaceToken(byte_offset, chr))
           IN [push_scope(l2, "Content", byte_offset)
                 EXCEPT !.token_start = START_AND_EMIT_TOKEN_AT_NEXT_BYTEOFFSET,
                        !.token_rawcontent_start = START_TOKEN_AT_NEXT_BYTEOFFSET,
                        !.state = "ReadingContent"]
      [] OTHER ->
           [l EXCEPT !.state = "Terminated",
                     !.occured_error = Some(InvalidSyntax(MsgAfterArgs, byte_offset))]

\* progress(), `match self.state`
on_scalar(l, byte_offset, chr) ==
    CASE l.state = "ReadingContent" -> on_ReadingContent(l, byte_offset, chr)
      [] l.state = "ReadingContentText" -> on_ReadingContentText(l, byte_offset, chr)
      [] l.state = "ReadingArgumentValue" -> on_ReadingArgumentValue(l, byte_offset, chr)
      [] l.state = "ReadingArgumentValueText" -> on_ReadingArgumentValueText(l, byte_offset, chr)
      [] l.state = "FoundCallOpening" -> on_FoundCallOpening(l, byte_offset, chr)
      [] l.state = "StartRaw" -> on_StartRaw(l, byte_offset, chr)
      [] l.state = "ReadingRaw" -> on_ReadingRaw(l, byte_offset, chr)
      [] l.state = "EndRaw" -> on_EndRaw(l, byte_offset, chr)
      [] l.state = "ReadingCallName" -> on_ReadingCallName(l, byte_offset, chr)
      [] l.state = "FoundArgumentOpening" -> on_FoundArgumentOpening(l, byte_offset, chr)
      [] l.state = "FoundArgumentClosing" -> on_FoundArgumentClosing(l, byte_offset, chr)
      [] OTHER -> l

\* self.next_tokens.pop_front(): the iterator after it and the popped token
pop_front(l) ==
    IF l.next_tokens = <<>>
    THEN [l |-> l, ret |-> None]
    ELSE [l |-> [l EXCEPT !.next_tokens = Tail(@)], ret |-> Some(l.next_tokens[1])]

\* end_of_input that does not latch Terminated
end_of_input_unlatched(l, length) ==
    IF /\ l.token_start # length
       /\ l.token_start # START_TOKEN_AT_NEXT_BYTEOFFSET
       /\ l.token_start # START_AND_EMIT_TOKEN_AT_NEXT_BYTEOFFSET
    THEN [l |-> [push_back(l, RangeToken("Text", l.token_start, length))
                   EXCEPT !.token_start = length],
          ret |-> None]
    ELSE [l |-> l, ret |-> Some(OffsetToken("EndOfFile", length))]

\* end_of_input that flushes a text whenever token_start is not the length
end_of_input_unguarded(l, length) ==
    IF l.token_start # length
    THEN [l |-> [push_back(l, RangeToken("Text", l.token_start, length))
                   EXCEPT !.token_start = length],
          ret |-> None]
    ELSE [l |-> [l EXCEPT !.state = "Terminated"],
          ret |-> Some(OffsetToken("EndOfFile", length))]

\* the None arm of self.chars.next() without the final Text
end_of_input_without_flush(l, length) ==
    [l |-> [l EXCEPT !.state = "Terminated"],
     ret |-> Some(OffsetToken("EndOfFile", length))]

\* the None arm of self.chars.next() that neither flushes nor terminates
end_of_input_spinning(l, length) ==
    [l |-> l, ret |-> None]

\* progress(), the arm `None` of `match self.chars.next()`
end_of_input(l, length) ==
    IF /\ l.token_start # length
       /\ l.token_start # START_TOKEN_AT_NEXT_BYTEOFFSET
       /\ l.token_start # START_AND_EMIT_TOKEN_AT_NEXT_BYTEOFFSET
    THEN [l |-> [push_back(l, RangeToken("Text", l.token_start, length))
                   EXCEPT !.token_start = length],
          ret |-> None]
    ELSE [l |-> [l EXCEPT !.state = "Terminated"],
          ret |-> Some(OffsetToken("EndOfFile", length))]

\* progress_arm that looks at the state before it looks at the queue
progress_arm_state_first(l) ==
    IF l.state = "Terminated" THEN "terminated"
    ELSE IF l.next_tokens # <<>> THEN "pending"
    ELSE "read"

\* progress(), what it does before it reads a scalar
progress_arm(l) ==
    IF l.next_tokens # <<>> THEN "pending"
    ELSE IF l.state = "Terminated" THEN "terminated"
    ELSE "read"

\* emit_occured_error that clones the error instead of taking it
emit_occured_error_cloned(l) == [l |-> l, ret |-> l.occured_error]

\* emit_occured_error(): mem::take
emit_occured_error(l) == [l |-> [l EXCEPT !.occured_error = None], ret |-> l.occured_error]

\* Iterator::next(), one iteration of its loop on the result r of progress():
\* the iterator afterwards, the item returned (None while the loop goes on)
next_on(r) ==
    IF is_some(r.ret)
    THEN [l |-> r.l, ret |-> Some(OkItem(r.ret.val)), continue |-> FALSE]
    ELSE IF r.l.state # "Terminated"
    THEN [l |-> r.l, ret |-> None, continue |-> TRUE]
    ELSE LET e == emit_occured_error(r.l)
         IN IF is_some(e.ret)
            THEN [l |-> e.l, ret |-> Some(ErrItem(e.ret.val)), continue |-> FALSE]
            ELSE [l |-> e.l, ret |-> Some(NoneItem), continue |-> FALSE]

----------------------------------------------------------------------------
(* Parser: the token stream, the source slices, the tree *)

\* Peekable<LexingIterator>: the item of the i-th call of next(); the stream
\* iter is read once the lexer has finished, so that None follows its end
Item(iter, i) == IF i <= Len(iter) THEN iter[i] ELSE NoneItem
\* the item is Some(Ok(token)) with a token of this kind
IsKind(item, kind) == item.tag = "Ok" /\ item.tok.kind = kind

UnexpectedToken(tok, expected) == [kind |-> "UnexpectedToken", tok |-> tok, expected |-> expected]
UnexpectedEOF(msg) == [kind |-> "UnexpectedEOF", msg |-> msg]
\* &self.source_code[range] with a range that is not a slice of the source
SlicePanic(tok) == [kind |-> "panic", tok |-> tok]

MsgUnexpectedEOF == "unexpected end of lexer tokens iterator"

\* Result of a parsing function with the position of the stream behind it
Ok(val, pos) == [tag |-> "Ok", val |-> val, pos |-> pos]
Err(e, pos) == [tag |-> "Err", err |-> e, pos |-> pos]
is_ok(r) == r.tag = "Ok"
\* the operator `?` on the Result r of a step: the rest F of the function runs
\* on Ok, and Err is returned as it is
Try(r, F(_)) == IF is_ok(r) THEN F(r) ELSE r

\* DocumentElement::Text, DocumentElement::Function
Text(text) == [type |-> "Text", text |-> text]
Function(name, args, content) ==
    [type |-> "Function", name |-> name, args |-> args, content |-> content]

\* HashMap::new and HashMap::insert, the keys are strings (sequences of scalars)
NoArgs == [k \in {} |-> <<>>]
\* insert that keeps the value a key already has
insert_keep(args, key, node) ==
    [k \in DOMAIN args \cup {key} |-> IF k \in DOMAIN args THEN args[k] ELSE node]

insert(args, key, node) ==
    [k \in DOMAIN args \cup {key} |-> IF k = key THEN node ELSE args[k]]

WhitespaceKey == <<"=", "w", "h", "i", "t", "e", "s", "p", "a", "c", "e">>
FilepathKey == <<"f", "i", "l", "e", "p", "a", "t", "h">>
DocumentName == <<"d", "o", "c", "u", "m", "e", "n", "t">>
\* the path of the text document
Filepath == <<"d", "o", "c", ".", "l", "i", "t">>

\* str::is_char_boundary: a byte offset at which char_indices has found a
\* scalar, or the offset behind the last scalar read
is_char_boundary(offset) ==
    \/ offset = chars.front_offset
    \/ \E i \in 1..Len(seen) : seen[i].byte_offset = offset

\* index of the scalar that starts at the char boundary offset
char_index(offset) ==
    IF offset = chars.front_offset
    THEN Len(seen) + 1
    ELSE CHOOSE i \in 1..Len(seen) : seen[i].byte_offset = offset

\* &self.source_code[range] is defined for the range of tok
can_slice(tok) ==
    /\ tok.start <= tok.end
    /\ is_char_boundary(tok.start)
    /\ is_char_boundary(tok.end)

\* &self.source_code[range] for the range of tok
source_code(tok) == SubSeq(source, char_index(tok.start), char_index(tok.end) - 1)

\* &self.source_code[range] for the range of tok, as a step
slice(tok, pos) ==
    IF can_slice(tok) THEN Ok(source_code(tok), pos) ELSE Err(SlicePanic(tok), pos)

\* iter.next() where one kind of token is expected
\* the match on iter.next() that reports an error of the lexer as the end of
\* the input
consume_masking_error(iter, pos, kind, expected) ==
    LET item == Item(iter, pos)
    IN CASE item.tag = "None" -> Err(UnexpectedEOF(MsgUnexpectedEOF), pos + 1)
         [] item.tag = "Err" -> Err(UnexpectedEOF(MsgUnexpectedEOF), pos + 1)
         [] IsKind(item, kind) -> Ok(item.tok, pos + 1)
         [] IsKind(item, "EndOfFile") -> Err(UnexpectedEOF(MsgUnexpectedEOF), pos + 1)
         [] OTHER -> Err(UnexpectedToken(item.tok, expected), pos + 1)

consume(iter, pos, kind, expected) ==
    LET item == Item(iter, pos)
    IN CASE item.tag = "None" -> Err(UnexpectedEOF(MsgUnexpectedEOF), pos + 1)
         [] item.tag = "Err" -> Err(item.err, pos + 1)
         [] IsKind(item, kind) -> Ok(item.tok, pos + 1)
         [] IsKind(item, "EndOfFile") -> Err(UnexpectedEOF(MsgUnexpectedEOF), pos + 1)
         [] OTHER -> Err(UnexpectedToken(item.tok, expected), pos + 1)

\* iter.next() of the arm NextToken::Unexpected inside a function
protocol_violation(iter, pos, expected) ==
    LET item == Item(iter, pos)
    IN CASE item.tag = "Ok" -> Err(UnexpectedToken(item.tok, expected), pos + 1)
         [] item.tag = "Err" -> Err(item.err, pos + 1)
         [] OTHER -> Err(UnexpectedEOF(MsgUnexpectedEOF), pos + 1)

\* the arm NextToken::Text of the three loops: the Text element of the token
text_element(iter, pos) ==
    Try(slice(Item(iter, pos).tok, pos + 1), LAMBDA text : Ok(Text(text.val), text.pos))

\* parse_raw that wants a Whitespace token between the Text and EndRaw
parse_raw_whitespace_after(iter, pos) ==
    Try(consume(iter, pos, "BeginRaw", "start of raw string"), LAMBDA begin :
    Try(slice(begin.val, begin.pos), LAMBDA name :
    Try(consume(iter, begin.pos, "Whitespace", "some whitespace"), LAMBDA whitespace :
    Try(consume(iter, whitespace.pos, "Text", "text string"), LAMBDA text :
    Try(slice(text.val, text.pos), LAMBDA content :
    Try(consume(iter, text.pos, "Whitespace", "some whitespace"), LAMBDA after :
    Try(consume(iter, after.pos, "EndRaw", "end of raw string"), LAMBDA end :
        Ok(Function(name.val,
                    insert(NoArgs, WhitespaceKey, <<Text(<<whitespace.val.chr>>)>>),
                    <<Text(content.val)>>),
           end.pos))))))))

parse_raw(iter, pos) ==
    Try(consume(iter, pos, "BeginRaw", "start of raw string"), LAMBDA begin :
    Try(slice(begin.val, begin.pos), LAMBDA name :
    Try(consume(iter, begin.pos, "Whitespace", "some whitespace"), LAMBDA whitespace :
    Try(consume(iter, whitespace.pos, "Text", "text string"), LAMBDA text :
    Try(slice(text.val, text.pos), LAMBDA content :
    Try(consume(iter, text.pos, "EndRaw", "end of raw string"), LAMBDA end :
        Ok(Function(name.val,
                    insert(NoArgs, WhitespaceKey, <<Text(<<whitespace.val.chr>>)>>),
                    <<Text(content.val)>>),
           end.pos)))))))

RECURSIVE parse_function(_, _)
RECURSIVE parse_content_loop(_, _, _)
RECURSIVE parse_argument_value_loop(_, _, _)
RECURSIVE parse_arguments_loop(_, _, _)

\* parse_content, the loop
parse_content_loop(iter, pos, content) ==
    LET item == Item(iter, pos)
    IN CASE IsKind(item, "BeginFunction") ->
              Try(parse_function(iter, pos), LAMBDA func :
                  parse_content_loop(iter, func.pos, Append(content, func.val)))
         [] IsKind(item, "BeginRaw") ->
              Try(parse_raw(iter, pos), LAMBDA text :
                  parse_content_loop(iter, text.pos, Append(content, text.val)))
         [] IsKind(item, "Text") ->
              Try(text_element(iter, pos), LAMBDA text :
                  parse_content_loop(iter, text.pos, Append(content, text.val)))
         [] IsKind(item, "EndContent") -> Ok(content, pos)
         [] OTHER ->
              protocol_violation(iter, pos,
                  "start of function/raw string or some text or end of content")

parse_content(iter, pos) ==
    Try(consume(iter, pos, "BeginContent", "start of content"), LAMBDA begin :
    Try(parse_content_loop(iter, begin.pos, <<>>), LAMBDA content :
    Try(consume(iter, content.pos, "EndContent", "end of content"), LAMBDA end :
        Ok(content.val, end.pos))))

\* parse_argument_value, the loop
parse_argument_value_loop(iter, pos, arg_value) ==
    LET item == Item(iter, pos)
    IN CASE IsKind(item, "BeginFunction") ->
              Try(parse_function(iter, pos), LAMBDA func :
                  parse_argument_value_loop(iter, func.pos, Append(arg_value, func.val)))
         [] IsKind(item, "BeginRaw") ->
              Try(parse_raw(iter, pos), LAMBDA text :
                  parse_argument_value_loop(iter, text.pos, Append(arg_value, text.val)))
         [] IsKind(item, "Text") ->
              Try(text_element(iter, pos), LAMBDA text :
                  parse_argument_value_loop(iter, text.pos, Append(arg_value, text.val)))
         [] IsKind(item, "EndArgValue") -> Ok(arg_value, pos)
         [] OTHER ->
              protocol_violation(iter, pos,
                  "start of function/raw string or some text or end of argument value")

parse_argument_value(iter, pos) ==
    Try(consume(iter, pos, "BeginArgValue", "start of argument value"), LAMBDA begin :
    Try(parse_argument_value_loop(iter, begin.pos, <<>>), LAMBDA arg_value :
    Try(consume(iter, arg_value.pos, "EndArgValue", "end of argument value"), LAMBDA end :
        Ok(arg_value.val, end.pos))))

\* parse_function, `while let Some(Ok(ArgKey(_))) = iter.peek()`
parse_arguments_loop(iter, pos, args) ==
    IF ~IsKind(Item(iter, pos), "ArgKey") THEN Ok(args, pos)
    ELSE
      Try(slice(Item(iter, pos).tok, pos + 1), LAMBDA arg_name :
      Try(parse_argument_value(iter, arg_name.pos), LAMBDA arg_value :
          parse_arguments_loop(iter, arg_value.pos,
                               insert(args, arg_name.val, arg_value.val))))

\* optional_whitespace that takes the Whitespace token and stores nothing
optional_whitespace_unrecorded(iter, pos, args) ==
    IF IsKind(Item(iter, pos), "Whitespace")
    THEN Ok(args, pos + 1)
    ELSE Ok(args, pos)

\* parse_function, "optionally consume Whitespace"
optional_whitespace(iter, pos, args) ==
    IF IsKind(Item(iter, pos), "Whitespace")
    THEN Ok(insert(args, WhitespaceKey, <<Text(<<Item(iter, pos).tok.chr>>)>>), pos + 1)
    ELSE Ok(args, pos)

\* parse_function, steps (04) to (10): the arguments between BeginArgs and
\* EndArgs and the whitespace behind them
parse_arguments(iter, pos, args) ==
    IF ~IsKind(Item(iter, pos), "BeginArgs") THEN Ok(args, pos)
    ELSE
      Try(parse_arguments_loop(iter, pos + 1, args), LAMBDA pairs :
      Try(consume(iter, pairs.pos, "EndArgs", "end of arguments"), LAMBDA end :
          optional_whitespace(iter, end.pos, pairs.val)))

\* parse_function, steps (11) and (12): the content if BeginContent is next
optional_content(iter, pos) ==
    IF IsKind(Item(iter, pos), "BeginContent")
    THEN parse_content(iter, pos)
    ELSE Ok(<<>>, pos)

parse_function(iter, pos) ==
    Try(consume(iter, pos, "BeginFunction", "start of function"), LAMBDA begin :
    Try(consume(iter, begin.pos, "Call", "call name"), LAMBDA call :
    Try(slice(call.val, call.pos), LAMBDA name :
    Try(optional_whitespace(iter, call.pos, NoArgs), LAMBDA whitespace :
    Try(parse_arguments(iter, whitespace.pos, whitespace.val), LAMBDA args :
    Try(optional_content(iter, args.pos), LAMBDA content :
    Try(consume(iter, content.pos, "EndFunction", "end of function"), LAMBDA end :
        Ok(Function(name.val, args.val, content.val), end.pos))))))))

\* what consume_iter leaves: its Result and self.tree as far as it was filled
Consumed(result, node, pos) == [result |-> result, tree |-> node, pos |-> pos]
ResultOk == [tag |-> "Ok"]
ResultErr(e) == [tag |-> "Err", err |-> e]
\* the operator `?` in consume_iter: the loop goes on with an element pushed
\* to self.tree, or consume_iter returns the error
TryPush(r, node, F(_)) ==
    IF is_ok(r) THEN F(r) ELSE Consumed(ResultErr(r.err), node, r.pos)

\* consume_iter, the loop
RECURSIVE consume_iter_loop(_, _, _)
consume_iter_loop(iter, pos, node) ==
    LET item == Item(iter, pos)
    IN CASE IsKind(item, "BeginFunction") ->
              TryPush(parse_function(iter, pos), node, LAMBDA func :
                  consume_iter_loop(iter, func.pos, Append(node, func.val)))
         [] IsKind(item, "BeginRaw") ->
              TryPush(parse_raw(iter, pos), node, LAMBDA text :
                  consume_iter_loop(iter, text.pos, Append(node, text.val)))
         [] IsKind(item, "Text") ->
              TryPush(text_element(iter, pos), node, LAMBDA text :
                  consume_iter_loop(iter, text.pos, Append(node, text.val)))
         [] IsKind(item, "EndOfFile") -> Consumed(ResultOk, node, pos)
         [] item.tag = "Ok" ->
              Consumed(ResultErr(UnexpectedToken(item.tok,
                           "start of function/raw string or some text or end of file")),
                       node, pos + 1)
         [] item.tag = "Err" -> Consumed(ResultErr(item.err), node, pos + 1)
         [] OTHER ->
              Consumed(ResultErr(UnexpectedToken(OffsetToken("EndOfFile", 0),
                                                 MsgUnexpectedEOF)),
                       node, pos + 1)

\* consume_iter that puts each element in front of self.tree
consume_iter_prepending(iter) ==
    LET c == consume_iter_loop(iter, 1, <<>>)
    IN Consumed(c.result, [i \in 1..Len(c.tree) |-> c.tree[Len(c.tree) + 1 - i]], c.pos)

\* consume_iter that stops at an unexpected token and returns Ok
consume_iter_stopping(iter) ==
    LET c == consume_iter_loop(iter, 1, <<>>)
    IN IF c.result # ResultOk /\ c.result.err.kind = "UnexpectedToken"
       THEN Consumed(ResultOk, c.tree, c.pos - 1)
       ELSE c

\* consume_iter that takes the end of the input inside an open scope for the
\* end of the document
consume_iter_closing_at_end(iter) ==
    LET c == consume_iter_loop(iter, 1, <<>>)
    IN IF c.result # ResultOk
          /\ \/ c.result.err.kind = "UnexpectedEOF"
             \/ /\ c.result.err.kind = "UnexpectedToken"
                /\ c.result.err.tok.kind = "EndOfFile"
       THEN Consumed(ResultOk, c.tree, c.pos - 1)
       ELSE c

\* Parser::consume_iter on a new Parser
consume_iter(iter) == consume_iter_loop(iter, 1, <<>>)

\* Parser::tree
document_tree(node) ==
    Function(DocumentName, insert(NoArgs, FilepathKey, <<Text(Filepath)>>), node)

----------------------------------------------------------------------------
(* Line index: src/src/lines_with_indices.rs and the resolver of
   src/src/errors.rs *)

\* str::char_indices: the byte offset of the i-th scalar of s; the byte
\* length of s for i = Len(s) + 1
byte_offset_of(s, i) == str_len(SubSeq(s, 1, i - 1))

\* str::get(start..end) and str::get(start..): None unless both offsets are
\* char boundaries in order
get(s, start, end) ==
    IF \E i, j \in 1..(Len(s) + 1) :
          i <= j /\ byte_offset_of(s, i) = start /\ byte_offset_of(s, j) = end
    THEN LET i == CHOOSE i \in 1..(Len(s) + 1) : byte_offset_of(s, i) = start
             j == CHOOSE j \in 1..(Len(s) + 1) : byte_offset_of(s, j) = end
         IN Some(SubSeq(s, i, j - 1))
    ELSE None
get_from(s, start) == get(s, start, str_len(s))

saturating_add(a, b) == IF a + b > UsizeMax THEN UsizeMax ELSE a + b

\* the scalars that break a line on their own (LB4, LB5)
HardBreaks == {FORM_FEED, LINE_TABULATION, LINE_SEPARATOR, PARAGRAPH_SEPARATOR,
               LINE_FEED, NEXT_LINE}

\* find_next_line_terminator that takes U+000D for a terminator of its own
find_next_line_terminator_single(substr) ==
    LET found == {i \in 1..Len(substr) : substr[i] \in HardBreaks \cup {CARRIAGE_RETURN}}
    IN IF found = {} THEN <<UsizeMax, UsizeMax>>
       ELSE LET i == CHOOSE i \in found : \A h \in found : i <= h
            IN <<byte_offset_of(substr, i),
                 byte_offset_of(substr, i) + len_utf8(substr[i])>>

\* find_next_line_terminator: (byte index of the next terminator, byte index
\* of the next line start), both relative to substr
find_next_line_terminator(substr) ==
    LET found == {i \in 1..Len(substr) : substr[i] \in HardBreaks \cup {CARRIAGE_RETURN}}
    IN IF substr = <<>> \/ found = {} THEN <<UsizeMax, UsizeMax>>
       ELSE LET i == CHOOSE i \in found : \A h \in found : i <= h
            IN CASE substr[i] \in HardBreaks ->
                      <<byte_offset_of(substr, i),
                        byte_offset_of(substr, i) + len_utf8(substr[i])>>
                 [] i < Len(substr) /\ substr[i + 1] = LINE_FEED ->
                      <<byte_offset_of(substr, i), byte_offset_of(substr, i + 1) + 1>>
                 [] OTHER ->
                      <<byte_offset_of(substr, i), byte_offset_of(substr, i) + 1>>

\* LinesWithByteIndices::from_str
from_str(s) == [s |-> s, start |-> 0]

\* a line as next() returns it
Line(start, line) == [start |-> start, slice |-> line]
\* Option::unwrap of None
UnwrapPanic == [tag |-> "panic"]

\* LinesWithByteIndices::next: the iterator behind the call and what the
\* call returns
lines_next(it) ==
    IF it.start = UsizeMax THEN [it |-> it, ret |-> None]
    ELSE IF get_from(it.s, it.start) = None THEN [it |-> it, ret |-> UnwrapPanic]
    ELSE LET substr == get_from(it.s, it.start).val
             terminator == find_next_line_terminator(substr)
         IN IF terminator[1] = UsizeMax /\ terminator[2] = UsizeMax
            THEN [it |-> [it EXCEPT !.start = UsizeMax],
                  ret |-> Some(Line(it.start, substr))]
            ELSE IF get(it.s, it.start, saturating_add(it.start, terminator[1])) = None
            THEN [it |-> [it EXCEPT !.start = saturating_add(terminator[2], it.start)],
                  ret |-> UnwrapPanic]
            ELSE [it |-> [it EXCEPT !.start = saturating_add(terminator[2], it.start)],
                  ret |-> Some(Line(it.start,
                                    get(it.s, it.start,
                                        saturating_add(it.start, terminator[1])).val))]

\* src.lines_indices() run to its end, as a for loop does: the lines in order
RECURSIVE lines_from(_)
lines_from(it) ==
    LET r == lines_next(it)
    IN IF r.ret.tag = "Some" THEN <<r.ret.val>> \o lines_from(r.it) ELSE <<>>
lines_indices(s) == lines_from(from_str(s))

\* the steps of the two nested loops of get_line_identifier_at_byte over the
\* lines from the n-th one on: one step per scalar of a line, with the
\* values of enumerate() (zero-based) and of char_indices
RECURSIVE columns_from(_, _)
columns_from(all, n) ==
    IF n > Len(all) THEN <<>>
    ELSE [i \in 1..Len(all[n].slice) |->
             [line_index |-> n - 1,
              column_index |-> i - 1,
              start_byte_offset |-> all[n].start,
              column_byte_offset |-> byte_offset_of(all[n].slice, i)]]
         \o columns_from(all, n + 1)

\* prev_byte_offset, prev_line_index, prev_column_index
Prev(byte_offset, line_index, column_index) ==
    [byte_offset |-> byte_offset, line_index |-> line_index, column_index |-> column_index]

\* the triple returned from inside the loops
identifier(prev, step) ==
    <<prev.line_index, prev.column_index, step.column_byte_offset>>

\* get_line_identifier_at_byte, from the k-th step of its loops on
RECURSIVE locate_from(_, _, _, _)
locate_from(byte_offset, steps, k, prev) ==
    IF k > Len(steps)
    THEN <<prev.line_index, prev.column_index, prev.byte_offset>>
    ELSE IF /\ prev.byte_offset <= byte_offset
            /\ byte_offset < steps[k].start_byte_offset + steps[k].column_byte_offset
    THEN identifier(prev, steps[k])
    ELSE locate_from(byte_offset, steps, k + 1,
                     Prev(steps[k].start_byte_offset + steps[k].column_byte_offset,
                          steps[k].line_index, steps[k].column_index))

\* Error::get_line_identifier_at_byte
get_line_identifier_at_byte(byte_offset, src) ==
    locate_from(byte_offset, columns_from(lines_indices(src), 1), 1, Prev(0, 0, 0))

\* Token::byte_offsets
byte_offsets(tok) ==
    IF tok.kind \in RangeKinds THEN <<tok.start, Some(tok.end)>> ELSE <<tok.offset, None>>

\* the resolved errors: a position is (line, character index, byte offset)
LexingError(filepath, msg, line, column, byte) ==
    [kind |-> "LexingError", filepath |-> filepath, msg |-> msg,
     line |-> line, column |-> column, byte |-> byte]
RangedLexingError(filepath, msg, range) ==
    [kind |-> "RangedLexingError", filepath |-> filepath, msg |-> msg, range |-> range]

\* format!("expected {}, but got token {:?}", expected, got_token.name())
ExpectedButGot(expected, name) == <<"expected", expected, "but got token", name>>

\* str::lines().count(): the lines that U+000A ends, and the rest of the
\* text behind the last U+000A if it is not empty
lines_count(src) ==
    Cardinality({i \in 1..Len(src) : src[i] = LINE_FEED})
    + (IF src # <<>> /\ src[Len(src)] # LINE_FEED THEN 1 ELSE 0)

\* Error::format_with_source
format_with_source(e, filepath, src) ==
    CASE e.kind \in {"UnbalancedParentheses", "InvalidSyntax"} ->
           LexingError(filepath, e.msg,
                       get_line_identifier_at_byte(e.offset, src)[1] + 1,
                       get_line_identifier_at_byte(e.offset, src)[2] + 1,
                       get_line_identifier_at_byte(e.offset, src)[3])
      [] e.kind = "UnexpectedEOF" ->
           LexingError(filepath, e.msg, lines_count(src), 0, str_len(src))
      [] e.kind = "UnexpectedToken" /\ is_some(byte_offsets(e.tok)[2]) ->
           RangedLexingError(filepath, ExpectedButGot(e.expected, e.tok.kind),
               <<get_line_identifier_at_byte(byte_offsets(e.tok)[1], src),
                 get_line_identifier_at_byte(byte_offsets(e.tok)[2].val, src)>>)
      [] e.kind = "UnexpectedToken" ->
           LexingError(filepath, ExpectedButGot(e.expected, e.tok.kind),
                       get_line_identifier_at_byte(byte_offsets(e.tok)[1], src)[1],
                       get_line_identifier_at_byte(byte_offsets(e.tok)[1], src)[2],
                       get_line_identifier_at_byte(byte_offsets(e.tok)[1], src)[3])
      [] OTHER -> e

\* Display for Error: the values written into the message, by the place
\* they are written to
fmt(e) ==
    CASE e.kind \in {"UnbalancedParentheses", "InvalidSyntax"} ->
           [msg |-> e.msg, byte |-> e.offset]
      [] e.kind = "UnexpectedEOF" -> [msg |-> e.msg]
      [] e.kind = "UnexpectedToken" -> [expected |-> e.expected, got |-> e.tok]
      [] e.kind = "LexingError" ->
           [message |-> e.msg, file |-> e.filepath, line |-> e.line + 1,
            column |-> e.column + 1, byte |-> e.byte]
      [] OTHER ->
           [message |-> e.msg, file |-> e.filepath,
            from_line |-> e.range[1][1] + 1, from_column |-> e.range[1][2] + 1,
            until_line |-> e.range[2][1], until_column |-> e.range[2][2]]

----------------------------------------------------------------------------
(* Sources *)

\* stems: the empty one, and one that leads into each region of the grammar
StemEmpty == <<>>
StemArgumentValue == <<"{", "a", "[", "k", "=">>
StemArgumentClosed == <<"{", "a", "[", "k", "=", "v", "]">>
StemSecondArgument == <<"{", "a", "[", "k", "=", "v", "]", "[", "k", "=">>
StemContent == <<"{", "a", " ">>
StemRaw == <<"{", "<", " ">>
StemRawTwo == <<"{", "<", "<", " ", ">", "a">>
StemCall == <<"{", "c", "a", "l", "l">>
StemRawInArgument == <<"{", "a", "[", "k", "=", "{", "<", "\n">>
StemNested == <<"{", "a", "[", "k", "=", "{", "b", " ">>
\* "{" followed by 125 "<": the tail decides about the 126th and 127th
StemRawLongOpen == <<"{">> \o Repeat("<", MaxRawDelimiter - 1)
\* a raw string opened by 126 "<" whose closing run lacks its last ">"
StemRawLongClose == <<"{">> \o Repeat("<", MaxRawDelimiter) \o <<" ", "a">>
                        \o Repeat(">", MaxRawDelimiter - 1)

\* a call, then text: the tail can add a second call
StemCallText == <<"{", "a", "}", "t", "e", "x", "t">>

\* a raw string whose text is bounded by whitespace on both sides
StemRawText == <<"{", "<", " ", "t", "e", "x", "t", " ">>

Stems == {StemEmpty, StemArgumentValue, StemArgumentClosed, StemSecondArgument,
          StemContent, StemRaw, StemRawTwo, StemCall, StemRawInArgument, StemNested,
          StemRawLongOpen, StemRawLongClose, StemCallText, StemRawText}

----------------------------------------------------------------------------
(* Actions: each is one iteration of the loop of next() *)

SetIterator(l) ==
    /\ state' = l.state
    /\ token_start' = l.token_start
    /\ token_function_start' = l.token_function_start
    /\ token_rawcontent_start' = l.token_rawcontent_start
    /\ raw_delimiter_length' = l.raw_delimiter_length
    /\ raw_delimiter_read' = l.raw_delimiter_read
    /\ stack' = l.stack
    /\ next_tokens' = l.next_tokens
    /\ occured_error' = l.occured_error
    /\ panicked' = l.panicked

\* the loop of next() takes the result r of progress(); a panic ends the program
Deliver(r) ==
    LET n == next_on(r)
    IN /\ recorded' = IF is_some(r.l.occured_error) THEN r.l.occured_error ELSE recorded
       /\ UNCHANGED <<parser, lineindex>>
       /\ IF r.l.panicked
          THEN /\ SetIterator(r.l)
               /\ UNCHANGED <<out, in_next>>
          ELSE /\ SetIterator(n.l)
               /\ in_next' = n.continue
               /\ out' = IF is_some(n.ret) THEN Append(out, n.ret.val) ELSE out

IdlePolls == Cardinality({i \in 1..Len(out) : out[i].tag = "None"})

\* progress() returns a pending token
Pending ==
    /\ ~panicked
    /\ progress_arm(Self) = "pending"
    /\ Deliver(pop_front(Self))
    /\ UNCHANGED <<input, seen, queued>>

\* progress() returns None because the lexer has terminated
Exhausted ==
    /\ ~panicked
    /\ progress_arm(Self) = "terminated"
    /\ is_some(occured_error) \/ IdlePolls < MaxIdlePolls
    /\ consumed = None
    /\ Deliver([l |-> Self, ret |-> None])
    /\ UNCHANGED <<input, seen, queued>>

\* self.chars.next() is None
EndOfInput ==
    /\ ~panicked
    /\ progress_arm(Self) = "read"
    /\ chars.index > Len(source)
    /\ closed' = TRUE
    /\ LET r == end_of_input(Self, source_byte_length)
       IN /\ queued' = queued \o r.l.next_tokens
          /\ Deliver(r)
    /\ UNCHANGED <<source, drawn, chars, seen>>

\* self.chars.next() is Some((byte_offset, chr)), read in state st.  The queue
\* is empty when a scalar is read, so the tokens of l.next_tokens are the ones
\* this scalar made the lexer push.
Read(st) ==
    /\ ~panicked
    /\ progress_arm(Self) = "read"
    /\ state = st
    /\ \E chr \in Alphabet \cup {source[i] : i \in 1..Len(source)} :
          /\ IF chars.index <= Len(source)
             THEN chr = source[chars.index] /\ UNCHANGED <<source, drawn>>
             ELSE /\ ~closed
                  /\ drawn < MaxTail
                  /\ chr \in Alphabet
                  /\ source' = Append(source, chr)
                  /\ drawn' = drawn + 1
          /\ chars' = [index |-> chars.index + 1,
                       front_offset |-> chars.front_offset + len_utf8(chr)]
          /\ LET l == on_scalar(Self, chars.front_offset, chr)
             IN /\ seen' = Append(seen, [state |-> st,
                                         byte_offset |-> chars.front_offset,
                                         chr |-> chr,
                                         tokens |-> l.next_tokens,
                                         next_state |-> l.state,
                                         stack |-> l.stack])
                /\ queued' = queued \o l.next_tokens
                /\ Deliver(pop_front(l))
    /\ UNCHANGED closed

ReadContent == Read("ReadingContent")
ReadContentText == Read("ReadingContentText")
ReadArgumentValue == Read("ReadingArgumentValue")
ReadArgumentValueText == Read("ReadingArgumentValueText")
ReadCallOpening == Read("FoundCallOpening")
ReadStartRaw == Read("StartRaw")
ReadRaw == Read("ReadingRaw")
ReadEndRaw == Read("EndRaw")
ReadCallName == Read("ReadingCallName")
ReadArgumentOpening == Read("FoundArgumentOpening")
ReadArgumentClosing == Read("FoundArgumentClosing")

\* Parser::consume_iter(iter): the parser takes the iterator by value, so the
\* items of out are the ones it pulls, and nobody polls the iterator before
\* or after it
ConsumeIter ==
    /\ ~panicked
    /\ ~in_next
    /\ progress_arm(Self) = "terminated"
    /\ occured_error = None
    /\ IdlePolls = 0
    /\ consumed = None
    /\ LET c == consume_iter(out)
       IN /\ consumed' = Some(c.result)
          /\ tree' = c.tree
          \* Ok: peek has pulled the EndOfFile at c.pos; Err: the item in front
          \* of c.pos is the last one that next() has pulled
          /\ pulled' = IF c.result = ResultOk THEN c.pos ELSE c.pos - 1
    /\ UNCHANGED <<input, iterator, in_next, out, seen, queued, recorded, lineindex>>

Init ==
    /\ source \in Stems
    /\ drawn = 0
    /\ closed = FALSE
    /\ chars = [index |-> 1, front_offset |-> 0]
    /\ state = NewIterator.state
    /\ token_start = NewIterator.token_start
    /\ token_function_start = NewIterator.token_function_start
    /\ token_rawcontent_start = NewIterator.token_rawcontent_start
    /\ raw_delimiter_length = NewIterator.raw_delimiter_length
    /\ raw_delimiter_read = NewIterator.raw_delimiter_read
    /\ stack = NewIterator.stack
    /\ next_tokens = NewIterator.next_tokens
    /\ occured_error = NewIterator.occured_error
    /\ panicked = NewIterator.panicked
    /\ in_next = FALSE
    /\ out = <<>>
    /\ seen = <<>>
    /\ queued = <<>>
    /\ recorded = None
    /\ tree = <<>>
    /\ consumed = None
    /\ pulled = 0
    /\ line_source = <<>>
    /\ line_start = 0
    /\ lines = <<>>
    /\ located = None
    /\ displayed = None

Next ==
    \/ Pending
    \/ Exhausted
    \/ EndOfInput
    \/ ReadContent
    \/ ReadContentText
    \/ ReadArgumentValue
    \/ ReadArgumentValueText
    \/ ReadCallOpening
    \/ ReadStartRaw
    \/ ReadRaw
    \/ ReadEndRaw
    \/ ReadCallName
    \/ ReadArgumentOpening
    \/ ReadArgumentClosing
    \/ ConsumeIter

Spec == Init /\ [][Next]_vars

----------------------------------------------------------------------------
(* The line index on its own: a text is given to the line iterator, which is
   polled to its end, or to the resolver, which builds an iterator of its
   own (src.lines_indices()) *)

\* the scalars of the texts: the seven line terminators, one ordinary scalar
\* of one byte and one of two bytes
LineAlphabet == HardBreaks \cup {CARRIAGE_RETURN, "a", SMALL_LAMDA}

Texts == UNION {[1..n -> LineAlphabet] : n \in 0..MaxText}

\* how often next() has returned None
LinesIdlePolls == Cardinality({i \in 1..Len(lines) : lines[i] = None})

\* one call of LinesWithByteIndices::next
LinesNext ==
    /\ located = None
    /\ displayed = None
    /\ LinesIdlePolls < MaxIdlePolls
    /\ \A i \in 1..Len(lines) : lines[i] # UnwrapPanic
    /\ LET r == lines_next([s |-> line_source, start |-> line_start])
       IN /\ line_start' = r.it.start
          /\ lines' = Append(lines, r.ret)
    /\ UNCHANGED <<line_source, located, displayed, input, iterator, in_next, out, seen,
                   queued, recorded, parser>>

\* one call of Error::get_line_identifier_at_byte on the text
Locate ==
    /\ lines = <<>>
    /\ displayed = None
    /\ located = None
    /\ \E byte_offset \in 0..str_len(line_source) :
          located' = Some([byte_offset |-> byte_offset,
                           identifier |-> get_line_identifier_at_byte(byte_offset,
                                                                      line_source)])
    /\ UNCHANGED <<line_source, line_start, lines, displayed, input, iterator, in_next,
                   out, seen, queued, recorded, parser>>

\* the byte offsets at which a scalar of s starts, and the one behind s
Boundaries(s) == {byte_offset_of(s, i) : i \in 1..(Len(s) + 1)}

\* errors of the lexer and of the parser with offsets in the text s
ErrorsIn(s) ==
    {InvalidSyntax(MsgEmptyCall, b) : b \in Boundaries(s)}
    \cup {UnbalancedParentheses(MsgNeverStarted, b) : b \in Boundaries(s)}
    \cup {UnexpectedToken(OffsetToken("EndFunction", b), "call name") : b \in Boundaries(s)}
    \cup {UnexpectedToken(RangeToken("Text", b[1], b[2]), "call name") :
             b \in {p \in Boundaries(s) \X Boundaries(s) : p[1] < p[2]}}
    \cup {UnexpectedEOF(MsgUnexpectedEOF)}

\* an error is resolved against the text and displayed
Resolve ==
    /\ lines = <<>>
    /\ located = None
    /\ displayed = None
    /\ Len(line_source) <= MaxResolved
    /\ \E e \in ErrorsIn(line_source) :
          displayed' = Some([error |-> e,
                             shown |-> fmt(format_with_source(e, Filepath, line_source))])
    /\ UNCHANGED <<line_source, line_start, lines, located, input, iterator, in_next,
                   out, seen, queued, recorded, parser>>

LineInit ==
    /\ source = StemEmpty
    /\ drawn = 0
    /\ closed = FALSE
    /\ chars = [index |-> 1, front_offset |-> 0]
    /\ state = NewIterator.state
    /\ token_start = NewIterator.token_start
    /\ token_function_start = NewIterator.token_function_start
    /\ token_rawcontent_start = NewIterator.token_rawcontent_start
    /\ raw_delimiter_length = NewIterator.raw_delimiter_length
    /\ raw_delimiter_read = NewIterator.raw_delimiter_read
    /\ stack = NewIterator.stack
    /\ next_tokens = NewIterator.next_tokens
    /\ occured_error = NewIterator.occured_error
    /\ panicked = NewIterator.panicked
    /\ in_next = FALSE
    /\ out = <<>>
    /\ seen = <<>>
    /\ queued = <<>>
    /\ recorded = None
    /\ tree = <<>>
    /\ consumed = None
    /\ pulled = 0
    /\ line_source \in Texts
    /\ line_start = from_str(line_source).start
    /\ lines = <<>>
    /\ located = None
    /\ displayed = None

LineNext ==
    \/ LinesNext
    \/ Locate
    \/ Resolve

LineSpec == LineInit /\ [][LineNext]_vars

----------------------------------------------------------------------------
(* Vocabulary of the properties *)

IsToken(item) == item.tag = "Ok"
IsEndOfFile(item) == item.tag = "Ok" /\ item.tok.kind = "EndOfFile"
IsErr(item) == item.tag = "Err"
IsNone(item) == item.tag = "None"

\* the tokens among the items s
TokensOf(s) == LET oks == SelectSeq(s, IsToken) IN [i \in 1..Len(oks) |-> oks[i].tok]
\* the tokens next() has returned
Yielded == TokensOf(out)
\* the tokens the lexer has produced: returned or still pending
Emitted == Yielded \o next_tokens

\* the scalar boundaries of the part of the source that has been read: the
\* byte offsets at which char_indices has found a scalar, and the offset
\* behind the last of them
CharBoundaries == {seen[i].byte_offset : i \in 1..Len(seen)} \cup {chars.front_offset}

\* the step that read the last scalar
LastRead == seen[Len(seen)]
\* the last scalar was read in state st
LastReadIn(st) == Len(seen) > 0 /\ LastRead.state = st

range_len(tok) == tok.end - tok.start

\* position of an item in the scenarios of next(): tokens, EndOfFile, Err, None
Phase(item) ==
    CASE IsEndOfFile(item) -> 1
      [] IsErr(item) -> 2
      [] IsNone(item) -> 3
      [] OTHER -> 0

----------------------------------------------------------------------------
(* C1: on a source without lexing error, next() returns tokens that are not
   EndOfFile, then one EndOfFile carrying the byte length of the source, then
   None for ever: no Err, a token only after tokens that are not EndOfFile,
   and None only after EndOfFile or None. *)
C1_SuccessScenario ==
    recorded.tag = "None" =>
        \A i \in 1..Len(out) :
            /\ ~IsErr(out[i])
            /\ IsToken(out[i]) => \A j \in 1..(i - 1) : Phase(out[j]) = 0
            /\ IsEndOfFile(out[i]) => out[i].tok.offset = str_len(source)
            /\ IsNone(out[i]) => i > 1 /\ Phase(out[i - 1]) \in {1, 3}

\* a source without error has been lexed to its end and polled twice more
C1_Witness ==
    /\ recorded.tag = "None"
    /\ Len(out) >= 4
    /\ Phase(out[1]) = 0
    /\ IsEndOfFile(out[Len(out) - 2])
    /\ IsNone(out[Len(out) - 1])
    /\ IsNone(out[Len(out)])

(* C2: on a source with a lexing error, next() returns tokens that are not
   EndOfFile, at most one EndOfFile, then the recorded error once, then None
   for ever; once the error is recorded no scalar is read any more. *)
C2_FailureShape ==
    \A i \in 1..Len(out) :
        /\ \A j \in 1..(i - 1) : Phase(out[j]) <= Phase(out[i])
        /\ \A j \in 1..(i - 1) : Phase(out[i]) \in {1, 2} => Phase(out[j]) < Phase(out[i])
        /\ IsErr(out[i]) => out[i].err = recorded.val
        /\ IsNone(out[i]) => i > 1 /\ Phase(out[i - 1]) \in {2, 3}

C2_FailureScenario ==
    /\ [](recorded.tag = "Some" => C2_FailureShape)
    /\ [][recorded.tag = "Some" => chars' = chars]_vars

\* tokens, then the error, then None twice
C2_Witness ==
    /\ recorded.tag = "Some"
    /\ Len(out) >= 4
    /\ Phase(out[1]) = 0
    /\ IsErr(out[Len(out) - 2])
    /\ IsNone(out[Len(out) - 1])
    /\ IsNone(out[Len(out)])

(* C3: when next() returns the error, the queue of pending tokens is empty and
   every token that was ever queued has been returned before it, in the order
   in which it was queued. *)
C3_ErrorDeferral ==
    \A i \in 1..Len(out) :
        IsErr(out[i]) =>
            /\ next_tokens = <<>>
            /\ TokensOf(SubSeq(out, 1, i - 1)) = queued

\* the error came out after two tokens that the failing step had queued
C3_Witness ==
    /\ Len(seen) > 0
    /\ Len(LastRead.tokens) >= 2
    /\ LastRead.next_state = "Terminated"
    /\ \E i \in 1..Len(out) : IsErr(out[i])

(* C4: every range of an emitted token satisfies start <= end <= byte length
   of the source, every offset is at most the byte length, and every start,
   end and offset is a scalar boundary of the source. *)
C4_TokenBoundaries ==
    LET boundaries == CharBoundaries
        length == str_len(source)
        tokens == Emitted
    IN \A i \in 1..Len(tokens) :
          LET tok == tokens[i]
          IN IF tok.kind \in RangeKinds
             THEN /\ tok.start <= tok.end
                  /\ tok.end <= length
                  /\ tok.start \in boundaries
                  /\ tok.end \in boundaries
             ELSE /\ tok.offset <= length
                  /\ tok.offset \in boundaries

\* a function that opens behind a two-byte scalar of text
C4_Witness ==
    /\ Len(source) >= 3
    /\ source[1] = SMALL_LAMDA
    /\ Len(Emitted) >= 2
    /\ Emitted[1] = RangeToken("Text", 0, 2)
    /\ Emitted[2] = OffsetToken("BeginFunction", 2)

(* C5: an EndRaw token has the length of the BeginRaw token that opened its
   raw string, and that length is between 1 and 126. *)
C5_RawDelimiterRule ==
    LET emitted == Emitted
    IN \A j \in 1..Len(emitted) :
          emitted[j].kind = "EndRaw" =>
              \E i \in 1..(j - 1) :
                  /\ emitted[i].kind = "BeginRaw"
                  /\ \A m \in (i + 1)..(j - 1) : emitted[m].kind # "BeginRaw"
                  /\ range_len(emitted[i]) = range_len(emitted[j])
                  /\ range_len(emitted[i]) >= 1
                  /\ range_len(emitted[i]) <= MaxRawDelimiter

\* a raw string with a delimiter of two closes after a shorter run of ">"
C5_Witness ==
    /\ Len(source) >= 8
    /\ SubSeq(source, 1, 8) = <<"{", "<", "<", " ", ">", "a", ">", ">">>
    /\ \E j \in 1..Len(Emitted) : Emitted[j] = RangeToken("EndRaw", 6, 8)

\* number of "<" of the opening run that the lexer has read before scalar i
OpeningRun(i) ==
    LET openings == {j \in 1..(i - 1) : seen[j].state = "FoundCallOpening"}
    IN i - (CHOOSE j \in openings : \A k \in openings : k <= j)

(* C6: the 127th "<" of an opening run terminates the lexer with InvalidSyntax
   and no BeginRaw is emitted for that run; up to 126 "<" the run goes on and
   the whitespace after it emits BeginRaw over the whole run, and the "}"
   after the closing run emits EndRaw; the u8 counters stay below 256. *)
C6_DelimiterLengthBoundary ==
    /\ raw_delimiter_length <= MaxRawDelimiter + 1
    /\ raw_delimiter_read <= MaxRawDelimiter
    /\ LastReadIn("StartRaw") =>
          LET run == OpeningRun(Len(seen))
              offset == LastRead.byte_offset
          IN /\ (LastRead.chr = OPEN_RAW /\ run < MaxRawDelimiter) =>
                    /\ LastRead.next_state = "StartRaw"
                    /\ recorded = None
             /\ (LastRead.chr = OPEN_RAW /\ run >= MaxRawDelimiter) =>
                    /\ run = MaxRawDelimiter
                    /\ LastRead.next_state = "Terminated"
                    /\ state = "Terminated"
                    /\ recorded = Some(InvalidSyntax(MsgRawTooLong, offset))
                    /\ \A j \in 1..Len(Emitted) :
                          Emitted[j].kind = "BeginRaw" => Emitted[j].end < offset - run
             /\ is_whitespace(LastRead.chr) =>
                    /\ run <= MaxRawDelimiter
                    /\ LastRead.tokens[1] = RangeToken("BeginRaw", offset - run, offset)
                    /\ recorded = None
    /\ (LastReadIn("EndRaw") /\ LastRead.chr = CLOSE_FUNCTION) =>
          /\ Len(LastRead.tokens) = 2
          /\ LastRead.tokens[2].kind = "EndRaw"
          /\ LastRead.tokens[2].end = LastRead.byte_offset
          /\ recorded = None

\* a raw string with a delimiter of 126 has been opened and closed
C6_Witness ==
    \E i, j \in 1..Len(Yielded) :
        /\ i < j
        /\ Yielded[i] = RangeToken("BeginRaw", 1, 1 + MaxRawDelimiter)
        /\ Yielded[j].kind = "EndRaw"
        /\ range_len(Yielded[j]) = MaxRawDelimiter

(* C7: a "}" read right after the "{" of a call makes the lexer emit
   BeginFunction for that "{" and nothing after it, and terminate with
   InvalidSyntax at the offset of the "}". *)
C7_EmptyCall ==
    (LastReadIn("FoundCallOpening") /\ LastRead.chr = CLOSE_FUNCTION) =>
        LET opening == seen[Len(seen) - 1]
        IN /\ opening.chr = OPEN_FUNCTION
           /\ opening.state \in {"ReadingContent", "ReadingContentText",
                                 "ReadingArgumentValue", "ReadingArgumentValueText"}
           /\ LastRead.tokens = <<OffsetToken("BeginFunction", opening.byte_offset)>>
           /\ Emitted[Len(Emitted)] = OffsetToken("BeginFunction", opening.byte_offset)
           /\ \A j \in 1..Len(Emitted) :
                 /\ Emitted[j].kind = "Call" => Emitted[j].end <= opening.byte_offset
                 /\ Emitted[j].kind = "EndFunction" => Emitted[j].offset < opening.byte_offset
           /\ state = "Terminated"
           /\ recorded = Some(InvalidSyntax(MsgEmptyCall, LastRead.byte_offset))
           /\ \A i \in 1..Len(out) :
                 IsErr(out[i]) =>
                     /\ out[i].err = InvalidSyntax(MsgEmptyCall, LastRead.byte_offset)
                     /\ i > 1
                     /\ out[i - 1] = OkItem(OffsetToken("BeginFunction", opening.byte_offset))

\* an empty call inside an argument value has been reported
C7_Witness ==
    /\ LastReadIn("FoundCallOpening")
    /\ LastRead.chr = CLOSE_FUNCTION
    /\ seen[Len(seen) - 1].state = "ReadingArgumentValue"
    /\ \E i \in 1..Len(out) : IsErr(out[i])

(* C8: a "=" read right after an argument-opening "[" terminates the lexer
   with InvalidSyntax("argument key must not be an empty string"); the step
   emits nothing, no ArgKey is emitted for that bracket, and the tokens
   produced before are returned ahead of the error. *)
C8_EmptyArgumentKey ==
    (/\ LastReadIn("FoundArgumentOpening")
     /\ LastRead.chr = ASSIGN
     /\ seen[Len(seen) - 1].chr = OPEN_ARG
     /\ seen[Len(seen) - 1].state \in {"ReadingCallName", "FoundArgumentClosing"}) =>
        LET bracket == seen[Len(seen) - 1]
        IN /\ LastRead.tokens = <<>>
           /\ state = "Terminated"
           /\ recorded = Some(InvalidSyntax(MsgEmptyKey, LastRead.byte_offset))
           /\ \A j \in 1..Len(Emitted) :
                 Emitted[j].kind = "ArgKey" => Emitted[j].end < bracket.byte_offset
           /\ bracket.state = "ReadingCallName" =>
                 /\ Len(Emitted) >= 3
                 /\ Emitted[Len(Emitted)] = OffsetToken("BeginArgs", bracket.byte_offset)
                 /\ Emitted[Len(Emitted) - 1].kind = "Call"
                 /\ Emitted[Len(Emitted) - 2].kind = "BeginFunction"
           /\ \A i \in 1..Len(out) :
                 IsErr(out[i]) =>
                     /\ out[i].err = InvalidSyntax(MsgEmptyKey, LastRead.byte_offset)
                     /\ TokensOf(SubSeq(out, 1, i - 1)) = Emitted

\* "{call[=": BeginFunction, Call, BeginArgs, then the error
C8_Witness ==
    /\ source = <<"{", "c", "a", "l", "l", "[", "=">>
    /\ Len(out) = 4
    /\ TokensOf(out) = <<OffsetToken("BeginFunction", 0), RangeToken("Call", 1, 5),
                         OffsetToken("BeginArgs", 5)>>
    /\ out[4] = ErrItem(InvalidSyntax(MsgEmptyKey, 6))

(* C9: in FoundArgumentClosing, "}" emits EndArgs and EndFunction and leaves
   the call, a whitespace emits EndArgs and Whitespace and opens the content,
   "[" starts another argument, and any other scalar terminates the lexer
   with InvalidSyntax at the offset of that scalar. *)
C9_AfterArguments ==
    LastReadIn("FoundArgumentClosing") =>
        LET chr == LastRead.chr
            offset == LastRead.byte_offset
            closing == seen[Len(seen) - 1]
        IN /\ closing.chr = CLOSE_ARG
           /\ chr = CLOSE_FUNCTION =>
                 /\ LastRead.tokens = <<OffsetToken("EndArgs", closing.byte_offset),
                                        OffsetToken("EndFunction", offset)>>
                 /\ LastRead.next_state \in {"ReadingContent", "ReadingArgumentValue"}
                 /\ Len(LastRead.stack) = Len(closing.stack) - 1
                 /\ recorded = None
           /\ is_whitespace(chr) =>
                 /\ LastRead.tokens = <<OffsetToken("EndArgs", closing.byte_offset),
                                        WhitespaceToken(offset, chr)>>
                 /\ LastRead.next_state = "ReadingContent"
                 /\ LastRead.stack = Append(closing.stack, "Content")
                 /\ recorded = None
           /\ chr = OPEN_ARG =>
                 /\ LastRead.tokens = <<>>
                 /\ LastRead.next_state = "FoundArgumentOpening"
                 /\ LastRead.stack = closing.stack
                 /\ recorded = None
           /\ (chr \notin {CLOSE_FUNCTION, OPEN_ARG} /\ ~is_whitespace(chr)) =>
                 /\ LastRead.tokens = <<>>
                 /\ LastRead.next_state = "Terminated"
                 /\ state = "Terminated"
                 /\ recorded = Some(InvalidSyntax(MsgAfterArgs, offset))

\* a scalar that may not follow "]" has been rejected, and the error returned
C9_Witness ==
    /\ LastReadIn("FoundArgumentClosing")
    /\ LastRead.chr = "a"
    /\ Len(out) > 0
    /\ out[Len(out)] = ErrItem(InvalidSyntax(MsgAfterArgs, LastRead.byte_offset))

\* no two neighbours of the sequence node are Text elements, and the same
\* holds for the content and for every argument value of its functions
RECURSIVE NoAdjacentText(_)
NoAdjacentText(node) ==
    /\ \A i \in 1..(Len(node) - 1) :
          ~(node[i].type = "Text" /\ node[i + 1].type = "Text")
    /\ \A i \in 1..Len(node) :
          node[i].type = "Function" =>
              /\ NoAdjacentText(node[i].content)
              /\ \A k \in DOMAIN node[i].args : NoAdjacentText(node[i].args[k])

(* C10: after consume_iter has returned Ok, no content sequence and no
   argument-value sequence of the tree, the content of the root function
   "document" included, holds two Text elements next to each other. *)
C10_MaximalTextRuns ==
    consumed = Some(ResultOk) => NoAdjacentText(<<document_tree(tree)>>)

----------------------------------------------------------------------------
\* every function of the sequence node, of the content and of the argument
\* values of its functions, has a name of at least one scalar
RECURSIVE NamesNonEmpty(_)
NamesNonEmpty(node) ==
    \A i \in 1..Len(node) :
        node[i].type = "Function" =>
            /\ node[i].name # <<>>
            /\ NamesNonEmpty(node[i].content)
            /\ \A k \in DOMAIN node[i].args : NamesNonEmpty(node[i].args[k])

(* C11: every Call token the lexer emits has a range of at least one byte,
   and after consume_iter has returned Ok every function of the tree, the
   functions of raw strings and the root "document" included, has a name
   that is not empty. *)
C11_NonEmptyNames ==
    /\ \A i \in 1..Len(Emitted) :
          Emitted[i].kind = "Call" => Emitted[i].end > Emitted[i].start
    /\ consumed = Some(ResultOk) => NamesNonEmpty(<<document_tree(tree)>>)

\* a call with a name of one scalar has been parsed into a function of the
\* root
C11_Witness ==
    /\ consumed = Some(ResultOk)
    /\ \E i \in 1..Len(Yielded) :
          /\ Yielded[i].kind = "Call"
          /\ range_len(Yielded[i]) = 1
          /\ \E j \in 1..Len(tree) :
                /\ tree[j].type = "Function"
                /\ tree[j].name = source_code(Yielded[i])

----------------------------------------------------------------------------
\* the number of functions and raw strings that are open in front of the
\* j-th token
Depth(j) ==
    Cardinality({i \in 1..(j - 1) : Yielded[i].kind \in {"BeginFunction", "BeginRaw"}})
    - Cardinality({i \in 1..(j - 1) : Yielded[i].kind \in {"EndFunction", "EndRaw"}})

\* the tokens that start a top-level element, in the order of the source
TopLevel ==
    SelectSeq([j \in 1..Len(Yielded) |-> j],
              LAMBDA j : /\ Yielded[j].kind \in {"Text", "BeginFunction", "BeginRaw"}
                         /\ Depth(j) = 0)

\* the element is the one that the j-th token starts
StartsElement(j, element) ==
    CASE Yielded[j].kind = "Text" ->
           element.type = "Text" /\ element.text = source_code(Yielded[j])
      [] Yielded[j].kind = "BeginRaw" ->
           element.type = "Function" /\ element.name = source_code(Yielded[j])
      [] OTHER ->
           element.type = "Function" /\ element.name = source_code(Yielded[j + 1])

(* C12: after consume_iter has returned Ok, tree() is one function named
   "document" whose content holds one element for each top-level Text,
   function call and raw string of the source, in the order of the source. *)
C12_RootContent ==
    consumed = Some(ResultOk) =>
        /\ document_tree(tree).type = "Function"
        /\ document_tree(tree).name = DocumentName
        /\ Len(document_tree(tree).content) = Len(TopLevel)
        /\ \A n \in 1..Len(TopLevel) :
              StartsElement(TopLevel[n], document_tree(tree).content[n])

\* the source {a}text{a} has been parsed: Function a, Text "text", Function a
C12_Witness ==
    /\ consumed = Some(ResultOk)
    /\ source = <<"{", "a", "}", "t", "e", "x", "t", "{", "a", "}">>
    /\ Len(document_tree(tree).content) = 3
    /\ document_tree(tree).content[1].type = "Function"
    /\ document_tree(tree).content[1].name = <<"a">>
    /\ document_tree(tree).content[2] = Text(<<"t", "e", "x", "t">>)
    /\ document_tree(tree).content[3].type = "Function"
    /\ document_tree(tree).content[3].name = <<"a">>

----------------------------------------------------------------------------
\* the ArgKey tokens of the call that the first token starts: the keys of its
\* own brackets, not those of calls nested in its values or content
FirstCallKeys ==
    {j \in 1..Len(Yielded) :
        /\ Yielded[j].kind = "ArgKey"
        /\ Depth(j) = 1
        /\ \A i \in 2..j : Depth(i) >= 1}

\* the last bracket of the first call that has the key of the j-th token
LastOccurrence(j) ==
    CHOOSE i \in FirstCallKeys :
        /\ source_code(Yielded[i]) = source_code(Yielded[j])
        /\ \A h \in FirstCallKeys :
              source_code(Yielded[h]) = source_code(Yielded[j]) => h <= i

(* C13: when a function call has been parsed, its args hold each key of its
   [key=value] brackets once, mapped to the value sequence of the last
   bracket with that key; apart from these keys args holds "=whitespace"
   at most. *)
C13_LastWriteWins ==
    (consumed = Some(ResultOk) /\ Len(Yielded) >= 1
        /\ Yielded[1].kind = "BeginFunction") =>
        /\ DOMAIN tree[1].args \ {WhitespaceKey}
              = {source_code(Yielded[j]) : j \in FirstCallKeys}
        /\ \A j \in FirstCallKeys :
              tree[1].args[source_code(Yielded[j])]
                = parse_argument_value(out, LastOccurrence(j) + 1).val

\* {a[k=v][k=a]} has been parsed: the key k is mapped to the second value
C13_Witness ==
    /\ consumed = Some(ResultOk)
    /\ source = <<"{", "a", "[", "k", "=", "v", "]", "[", "k", "=", "a", "]", "}">>
    /\ Cardinality(FirstCallKeys) = 2
    /\ DOMAIN tree[1].args = {<<"k">>}
    /\ tree[1].args[<<"k">>] = <<Text(<<"a">>)>>

----------------------------------------------------------------------------
\* the item that peekable_iter has pulled last
LastPulled == Item(out, pulled)

(* C14: when consume_iter fails on the end of the token stream, that is when
   the last item it has pulled is the EndOfFile token or None, inside a
   function, an argument block, an argument value, a content or a raw
   string, then the error is UnexpectedEOF. *)
C14_UnexpectedEOF ==
    (is_some(consumed) /\ consumed.val # ResultOk /\ pulled >= 1
        /\ (IsEndOfFile(LastPulled) \/ IsNone(LastPulled))) =>
        consumed.val.err.kind = "UnexpectedEOF"

(* C15: when consume_iter has returned Ok, it has pulled every item of the
   lexer up to the EndOfFile token, which is the last one, and the lexer has
   no pending token and is terminated. *)
C15_Exhaustion ==
    consumed = Some(ResultOk) =>
        /\ pulled = Len(Yielded)
        /\ IsEndOfFile(LastPulled)
        /\ \A i \in 1..(pulled - 1) : IsToken(out[i]) /\ ~IsEndOfFile(out[i])
        /\ next_tokens = <<>>
        /\ state = "Terminated"

\* a source of several elements has been parsed and every token is pulled
C15_Witness ==
    /\ consumed = Some(ResultOk)
    /\ Len(tree) >= 2
    /\ pulled >= 6
    /\ pulled = Len(Yielded)
    /\ IsEndOfFile(LastPulled)

----------------------------------------------------------------------------
\* the byte offsets of the source that a token denotes: the bytes of its
\* range or of its whitespace scalar, and the structural character that it
\* stands for or that delimits it ("{" of BeginFunction and in front of
\* BeginRaw, "}" of EndFunction and behind EndRaw, "[" of BeginArgs and in
\* front of ArgKey, "=" behind ArgKey and in front of BeginArgValue, "]" of
\* EndArgValue and EndArgs); where two tokens can stand for one character,
\* both are allowed to
Denoted(tok) ==
    CASE tok.kind \in {"Text", "Call"} -> tok.start..(tok.end - 1)
      [] tok.kind = "ArgKey" -> (tok.start - 1)..tok.end
      [] tok.kind = "BeginRaw" -> (tok.start - 1)..(tok.end - 1)
      [] tok.kind = "EndRaw" -> tok.start..tok.end
      [] tok.kind = "Whitespace" -> tok.offset..(tok.offset + len_utf8(tok.chr) - 1)
      [] tok.kind \in {"BeginFunction", "EndFunction", "BeginArgs",
                       "EndArgValue", "EndArgs"} -> {tok.offset}
      [] tok.kind = "BeginArgValue" -> {tok.offset - 1}
      [] OTHER -> {}

\* the source has been tokenized to its end without error
Tokenized ==
    /\ recorded = None
    /\ Len(Yielded) >= 1
    /\ Yielded[Len(Yielded)].kind = "EndOfFile"

(* C16: when a source has been tokenized without error, the tokens denote
   every byte of it: no byte of the source is dropped from the concatenation
   of the slices, structural characters and whitespace scalars of the
   tokens. *)
C16_RoundTrip ==
    Tokenized =>
        \A b \in 0..(str_len(source) - 1) :
            \E i \in 1..Len(Yielded) : b \in Denoted(Yielded[i])

----------------------------------------------------------------------------
WhitespaceAfterKey ==
    <<"=", "w", "h", "i", "t", "e", "s", "p", "a", "c", "e", "-", "a", "f", "t", "e", "r">>

\* the text between the delimiters of the raw string that the j-th token
\* starts: BeginRaw is followed by Whitespace and Text
RawText(j) == source_code(Yielded[j + 2])

(* C17: a parsed raw string whose text is bounded by whitespace on both sides
   is a function named by the opening delimiter, with the args "=whitespace"
   and "=whitespace-after" holding the two bounding whitespace scalars, and
   with one Text of the text between them as content. *)
C17_RawString ==
    consumed = Some(ResultOk) =>
        \A n \in 1..Len(TopLevel) :
            (/\ Yielded[TopLevel[n]].kind = "BeginRaw"
             /\ RawText(TopLevel[n]) # <<>>
             /\ is_whitespace(RawText(TopLevel[n])[Len(RawText(TopLevel[n]))])) =>
                /\ tree[n].type = "Function"
                /\ tree[n].name = source_code(Yielded[TopLevel[n]])
                /\ DOMAIN tree[n].args = {WhitespaceKey, WhitespaceAfterKey}
                /\ tree[n].args[WhitespaceKey]
                      = <<Text(<<Yielded[TopLevel[n] + 1].chr>>)>>
                /\ tree[n].args[WhitespaceAfterKey]
                      = <<Text(<<RawText(TopLevel[n])[Len(RawText(TopLevel[n]))]>>)>>
                /\ tree[n].content
                      = <<Text(SubSeq(RawText(TopLevel[n]), 1,
                                      Len(RawText(TopLevel[n])) - 1))>>

----------------------------------------------------------------------------
\* the Whitespace tokens of the call that the first token starts: the
\* separator behind its name or its arguments, not the whitespace of raw
\* strings and calls nested in it
FirstCallSeparators ==
    {j \in 1..Len(Yielded) :
        /\ Yielded[j].kind = "Whitespace"
        /\ Depth(j) = 1
        /\ \A i \in 2..j : Depth(i) >= 1}

\* the scalar of the source at a byte offset
ScalarAt(offset) == source[char_index(offset)]

(* C18: a parsed call with a separator, { NAME ([K=V])* WS CONTENT }, is a
   function named NAME whose args hold the keys K and "=whitespace", the
   latter mapped to one Text of the scalar WS, and whose content is the
   elements of CONTENT; one whitespace scalar is taken as separator: CONTENT
   starts at the byte behind it, so that further whitespace is content. *)
C18_FunctionCall ==
    (consumed = Some(ResultOk) /\ Len(Yielded) >= 1
        /\ Yielded[1].kind = "BeginFunction") =>
        /\ Cardinality(FirstCallSeparators) <= 1
        /\ tree[1].type = "Function"
        /\ tree[1].name = source_code(Yielded[2])
        /\ FirstCallSeparators = {} => WhitespaceKey \notin DOMAIN tree[1].args
        /\ \A j \in FirstCallSeparators :
              /\ is_whitespace(ScalarAt(Yielded[j].offset))
              /\ DOMAIN tree[1].args
                    = {source_code(Yielded[i]) : i \in FirstCallKeys} \cup {WhitespaceKey}
              /\ tree[1].args[WhitespaceKey] = <<Text(<<ScalarAt(Yielded[j].offset)>>)>>
              /\ Yielded[j + 1]
                    = OffsetToken("BeginContent",
                                  Yielded[j].offset + len_utf8(ScalarAt(Yielded[j].offset)))
              /\ tree[1].content = parse_content(out, j + 1).val
              /\ Yielded[j + 2].kind = "Text" =>
                    /\ Yielded[j + 2].start = Yielded[j + 1].offset
                    /\ tree[1].content[1] = Text(source_code(Yielded[j + 2]))

\* {a[k=v] a} has been parsed: name a, args k and "=whitespace", content a
C18_Witness ==
    /\ consumed = Some(ResultOk)
    /\ source = <<"{", "a", "[", "k", "=", "v", "]", " ", "a", "}">>
    /\ tree[1].name = <<"a">>
    /\ DOMAIN tree[1].args = {<<"k">>, WhitespaceKey}
    /\ tree[1].args[<<"k">>] = <<Text(<<"v">>)>>
    /\ tree[1].args[WhitespaceKey] = <<Text(<<" ">>)>>
    /\ tree[1].content = <<Text(<<"a">>)>>

----------------------------------------------------------------------------
\* the scalars of s that end a line: every line terminator, except a U+000A
\* that follows a U+000D and ends the line together with it
Breaks(s) ==
    {i \in 1..Len(s) :
        /\ s[i] \in {LINE_FEED, LINE_TABULATION, FORM_FEED, CARRIAGE_RETURN,
                      NEXT_LINE, LINE_SEPARATOR, PARAGRAPH_SEPARATOR}
        /\ ~(s[i] = LINE_FEED /\ i > 1 /\ s[i - 1] = CARRIAGE_RETURN)}

\* the n-th of them
BreakAt(s, n) ==
    CHOOSE i \in Breaks(s) : Cardinality({h \in Breaks(s) : h <= i}) = n

\* the last scalar of the terminator that starts at the scalar i
BreakEnd(s, i) ==
    IF s[i] = CARRIAGE_RETURN /\ i < Len(s) /\ s[i + 1] = LINE_FEED THEN i + 1 ELSE i

\* the n-th line of s: it starts behind the terminator of the line before
\* and ends in front of its own terminator or at the end of s
ExpectedLine(s, n) ==
    LET first == IF n = 1 THEN 1 ELSE BreakEnd(s, BreakAt(s, n - 1)) + 1
        last == IF n = Cardinality(Breaks(s)) + 1 THEN Len(s) ELSE BreakAt(s, n) - 1
    IN [start |-> byte_offset_of(s, first), slice |-> SubSeq(s, first, last)]

(* C19: the line iterator returns one pair (byte index of the line start,
   line slice) for each line of its text, and None after the last one.  Each
   of U+000A, U+000B, U+000C, U+000D, U+0085, U+2028, U+2029 ends a line, and
   U+000D U+000A together end one line, so a text with n terminators has
   n + 1 lines, the last one empty behind a trailing terminator; a slice is
   the text from the line start to the terminator, without it. *)
C19_LineIterator ==
    \A n \in 1..Len(lines) :
        IF n <= Cardinality(Breaks(line_source)) + 1
        THEN lines[n] = Some(ExpectedLine(line_source, n))
        ELSE lines[n] = None

\* a U+000D U+000A ends the line "a" and leaves an empty last line, then None
C19_Witness ==
    /\ line_source = <<"a", CARRIAGE_RETURN, LINE_FEED>>
    /\ lines = <<Some([start |-> 0, slice |-> <<"a">>]),
                 Some([start |-> 3, slice |-> <<>>]),
                 None>>

\* the scalar at column col (zero-based) of line number line (zero-based) of
\* the text covers the byte offset b
Contains(line, col, b) ==
    /\ line + 1 <= Len(lines_indices(line_source))
    /\ col + 1 <= Len(lines_indices(line_source)[line + 1].slice)
    /\ lines_indices(line_source)[line + 1].start
          + byte_offset_of(lines_indices(line_source)[line + 1].slice, col + 1) <= b
    /\ b < lines_indices(line_source)[line + 1].start
            + byte_offset_of(lines_indices(line_source)[line + 1].slice, col + 2)

\* the byte offset b lies in a scalar of a line slice: not in a terminator
\* and not behind the text
InLineSlice(b) ==
    \E line \in 0..Len(line_source), col \in 0..Len(line_source) : Contains(line, col, b)

\* the number (zero-based) of the line in which the byte offset b lies: in
\* its slice or in its terminator, or behind the text in the last line
LineOf(b) ==
    CHOOSE n \in 0..(Len(lines_indices(line_source)) - 1) :
        /\ lines_indices(line_source)[n + 1].start <= b
        /\ n + 2 <= Len(lines_indices(line_source)) =>
              b < lines_indices(line_source)[n + 2].start

(* C20: for every byte offset b from 0 to the length of the text, the line
   returned by get_line_identifier_at_byte(b, text) is the line in which b
   lies, and when b lies in a scalar of the line slice the returned column
   is that of this scalar. *)
C20_LineIndex ==
    is_some(located) =>
        /\ located.val.identifier[1] = LineOf(located.val.byte_offset)
        /\ InLineSlice(located.val.byte_offset) =>
              Contains(located.val.identifier[1], located.val.identifier[2],
                       located.val.byte_offset)

----------------------------------------------------------------------------
\* the byte offset b is the start of a scalar of the slice of line number
\* line (zero-based)
StartsScalarIn(line, b) ==
    /\ line + 1 <= Len(lines_indices(line_source))
    /\ \E i \in 1..Len(lines_indices(line_source)[line + 1].slice) :
          lines_indices(line_source)[line + 1].start
            + byte_offset_of(lines_indices(line_source)[line + 1].slice, i) = b

(* C21: for every byte offset b at which a scalar of a line slice starts, the
   third component returned by get_line_identifier_at_byte(b, text) is b
   minus the byte index at which the line of b starts. *)
C21_ByteColumn ==
    is_some(located) =>
        \A line \in 0..Len(line_source) :
            StartsScalarIn(line, located.val.byte_offset) =>
                located.val.identifier[3]
                  = located.val.byte_offset
                      - lines_indices(line_source)[line + 1].start

----------------------------------------------------------------------------
\* the first offset of a resolved error, and the second one of a token with
\* a range
ErrorStart(e) == IF e.kind = "UnexpectedToken" THEN byte_offsets(e.tok)[1] ELSE e.offset
ErrorEnd(e) == byte_offsets(e.tok)[2].val

(* C22: when an InvalidSyntax, UnbalancedParentheses or UnexpectedToken
   error is resolved with format_with_source and displayed, every line and
   column number shown is one more than the zero-based line index and
   character column that get_line_identifier_at_byte gives for the offset. *)
C22_OneBased ==
    (is_some(displayed) /\ displayed.val.error.kind # "UnexpectedEOF") =>
        IF displayed.val.error.kind = "UnexpectedToken"
           /\ is_some(byte_offsets(displayed.val.error.tok)[2])
        THEN /\ displayed.val.shown.from_line
                  = get_line_identifier_at_byte(ErrorStart(displayed.val.error),
                                                line_source)[1] + 1
             /\ displayed.val.shown.from_column
                  = get_line_identifier_at_byte(ErrorStart(displayed.val.error),
                                                line_source)[2] + 1
             /\ displayed.val.shown.until_line
                  = get_line_identifier_at_byte(ErrorEnd(displayed.val.error),
                                                line_source)[1] + 1
             /\ displayed.val.shown.until_column
                  = get_line_identifier_at_byte(ErrorEnd(displayed.val.error),
                                                line_source)[2] + 1
        ELSE /\ displayed.val.shown.line
                  = get_line_identifier_at_byte(ErrorStart(displayed.val.error),
                                                line_source)[1] + 1
             /\ displayed.val.shown.column
                  = get_line_identifier_at_byte(ErrorStart(displayed.val.error),
                                                line_source)[2] + 1

----------------------------------------------------------------------------
\* the situations in which the last scalar was read
\* a "}" right after the "{" of a call
ImmediateClose == LastReadIn("FoundCallOpening") /\ LastRead.chr = CLOSE_FUNCTION
\* a "=" right after the "[" of an argument
EmptyArgumentKey ==
    /\ LastReadIn("FoundArgumentOpening")
    /\ LastRead.chr = ASSIGN
    /\ seen[Len(seen) - 1].chr = OPEN_ARG
    /\ seen[Len(seen) - 1].state # "FoundArgumentOpening"
\* a scalar after the "]" of an argument that is none of "[", "}", whitespace
BadAfterArgumentClose ==
    /\ LastReadIn("FoundArgumentClosing")
    /\ LastRead.chr \notin {OPEN_ARG, CLOSE_FUNCTION}
    /\ ~is_whitespace(LastRead.chr)
\* a scalar other than "}" after a completed run of ">"
BadAfterRawEnd == LastReadIn("EndRaw") /\ LastRead.chr # CLOSE_FUNCTION
\* the "<" that makes the opening run longer than the maximum
DelimiterOverMaximum ==
    /\ LastReadIn("StartRaw")
    /\ LastRead.chr = OPEN_RAW
    /\ OpeningRun(Len(seen)) = MaxRawDelimiter
\* a scalar in the opening run that is neither "<" nor whitespace
BadInRawStart ==
    /\ LastReadIn("StartRaw")
    /\ LastRead.chr # OPEN_RAW
    /\ ~is_whitespace(LastRead.chr)

\* the lexer has produced an InvalidSyntax error
ProducedInvalidSyntax == is_some(recorded) /\ recorded.val.kind = "InvalidSyntax"

(* C23: every InvalidSyntax error of the lexer is caused by the scalar read
   last, at whose offset it is reported, in one of six situations: an
   immediate "{}", an empty argument key, a bad character after an
   argument-closing "]", a bad character after a completed run of ">", a raw
   delimiter over the maximum length, or a character in the opening run of a
   raw string that is neither "<" nor whitespace; and each of these
   situations produces InvalidSyntax. *)
C23_InvalidSyntaxCauses ==
    /\ ProducedInvalidSyntax =>
          /\ Len(seen) > 0
          /\ recorded.val.offset = LastRead.byte_offset
          /\ CASE recorded.val.msg = MsgEmptyCall -> ImmediateClose
               [] recorded.val.msg = MsgEmptyKey -> EmptyArgumentKey
               [] recorded.val.msg = MsgAfterArgs -> BadAfterArgumentClose
               [] recorded.val.msg = MsgRawEnd -> BadAfterRawEnd
               [] recorded.val.msg = MsgRawTooLong -> DelimiterOverMaximum
               [] recorded.val.msg = MsgRawStart -> BadInRawStart
               [] OTHER -> FALSE
    /\ (Len(seen) > 0
        /\ (ImmediateClose \/ EmptyArgumentKey \/ BadAfterArgumentClose
            \/ BadAfterRawEnd \/ DelimiterOverMaximum \/ BadInRawStart)) =>
          ProducedInvalidSyntax

\* an ordinary scalar after the "<" of a raw string has produced InvalidSyntax
C23_Witness ==
    /\ ProducedInvalidSyntax
    /\ BadInRawStart
    /\ source = <<OPEN_FUNCTION, OPEN_RAW, "a">>

\* C23 as stated: InvalidSyntax in the five situations only
C23_FiveCauses ==
    ProducedInvalidSyntax =>
        \/ ImmediateClose
        \/ EmptyArgumentKey
        \/ BadAfterArgumentClose
        \/ BadAfterRawEnd
        \/ DelimiterOverMaximum

----------------------------------------------------------------------------
\* the scope stack in front of the i-th scalar read
StackBefore(i) == IF i = 1 THEN <<"Content">> ELSE seen[i - 1].stack
\* the i-th scalar read is a "}" in content while the stack holds only the
\* initial Content
ClosesInitialContent(i) ==
    /\ seen[i].chr = CLOSE_FUNCTION
    /\ seen[i].state \in {"ReadingContent", "ReadingContentText"}
    /\ StackBefore(i) = <<"Content">>

(* C24: a "}" read in content while the scope stack holds only the initial
   Content terminates the lexer with UnbalancedParentheses at the byte offset
   of that "}", and it is the last scalar the lexer reads. *)
C24_MismatchedPop ==
    \A i \in 1..Len(seen) :
        ClosesInitialContent(i) =>
            /\ i = Len(seen)
            /\ chars.index = i + 1
            /\ seen[i].next_state = "Terminated"
            /\ state = "Terminated"
            /\ is_some(recorded)
            /\ recorded.val.kind = "UnbalancedParentheses"
            /\ recorded.val.offset = seen[i].byte_offset

\* the "}" behind a closed call and a text has been read, and the lexer has
\* reported the error and returned None behind it
C24_Witness ==
    /\ Len(seen) = Len(StemCallText) + 1
    /\ ClosesInitialContent(Len(seen))
    /\ recorded = Some(UnbalancedParentheses(MsgNeverStarted, str_len(StemCallText)))
    /\ IsNone(out[Len(out)])

----------------------------------------------------------------------------
\* the source has ended inside the body of a raw string: the scope of the
\* raw string is still open when the lexer yields EndOfFile
EndsInRawString ==
    /\ Len(out) > 0
    /\ IsEndOfFile(out[Len(out)])
    /\ Len(seen) > 0
    /\ LastRead.stack # <<>>
    /\ LastRead.stack[Len(LastRead.stack)] = "RawString"

(* C25: when the source ends inside a raw string whose body was never
   terminated by the closing run of ">" and "}", the lexer produces an
   UnbalancedParentheses error. *)
C25_UnmatchedRawDelimiter ==
    EndsInRawString =>
        /\ is_some(recorded)
        /\ recorded.val.kind = "UnbalancedParentheses"

----------------------------------------------------------------------------
\* the tokens with a range, in the order in which they were yielded
HasRange(tok) == is_some(byte_offsets(tok)[2])
RangedTokens == SelectSeq(Yielded, HasRange)

(* C26: the tokens are yielded in source order: the byte offset or range
   start of each token is at least that of the token yielded before it, and
   every token with a range starts at or behind the end of the token with a
   range yielded before it. *)
C26_SourceOrder ==
    LET yielded == Yielded
        ranged == SelectSeq(yielded, HasRange)
    IN /\ \A i \in 1..(Len(yielded) - 1) :
             byte_offsets(yielded[i])[1] <= byte_offsets(yielded[i + 1])[1]
       /\ \A i \in 1..(Len(ranged) - 1) : ranged[i].end <= ranged[i + 1].start

\* the tokens of a call with an argument and a text behind it have been
\* yielded up to EndOfFile
C26_Witness ==
    /\ source = StemArgumentClosed \o <<CLOSE_FUNCTION, "a">>
    /\ Len(Yielded) = 11
    /\ Yielded[Len(Yielded)] = OffsetToken("EndOfFile", str_len(source))
    /\ Len(RangedTokens) = 4

----------------------------------------------------------------------------
\* the i-th scalar read belongs to the body of a raw string
ReadsRawBody(i) == seen[i].state = "ReadingRaw"

(* C27: raw strings do not recurse: a scalar of the body of a raw string,
   whichever it is, emits no token and leaves the scope stack as it is, and
   the tokens yielded in front of an EndRaw are BeginRaw, Whitespace and one
   Text, in this order and with nothing between them. *)
C27_RawDoesNotRecurse ==
    LET yielded == Yielded
    IN /\ \A i \in 1..Len(seen) :
             ReadsRawBody(i) =>
                 /\ seen[i].tokens = <<>>
                 /\ seen[i].stack = StackBefore(i)
                 /\ seen[i].stack[Len(seen[i].stack)] = "RawString"
       /\ \A j \in 1..Len(yielded) :
             yielded[j].kind = "EndRaw" =>
                 /\ j >= 4
                 /\ yielded[j - 1].kind = "Text"
                 /\ yielded[j - 2].kind = "Whitespace"
                 /\ yielded[j - 3].kind = "BeginRaw"
       /\ \A j \in 1..(Len(yielded) - 1) :
             yielded[j].kind = "BeginRaw" => yielded[j + 1].kind = "Whitespace"

\* a raw string whose body is a "{" has been closed
C27_Witness ==
    /\ source = StemRaw \o <<OPEN_FUNCTION, CLOSE_RAW, CLOSE_FUNCTION>>
    /\ Yielded = <<RangeToken("BeginRaw", 1, 2), WhitespaceToken(2, " "),
                   RangeToken("Text", 3, 4), RangeToken("EndRaw", 4, 5)>>
    /\ stack = <<"Content">>

----------------------------------------------------------------------------
\* token_start is an offset in front of the end of the source
PendingAtEnd ==
    token_start \notin {source_byte_length, START_TOKEN_AT_NEXT_BYTEOFFSET,
                        START_AND_EMIT_TOKEN_AT_NEXT_BYTEOFFSET}
\* the positions of EndOfFile among the items of next()
EndsOfFile == {j \in 1..Len(out) : IsEndOfFile(out[j])}

\* the step of the exhausted character iterator: with a pending token_start
\* it queues the final Text and yields nothing yet, otherwise it yields
\* EndOfFile and terminates
EndOfInputStep ==
    EndOfInput =>
        IF PendingAtEnd
        THEN /\ next_tokens' = <<RangeToken("Text", token_start, str_len(source))>>
             /\ out' = out
             /\ state' = state
             /\ ~PendingAtEnd'
        ELSE /\ next_tokens' = <<>>
             /\ out' = Append(out, OkItem(OffsetToken("EndOfFile", str_len(source))))
             /\ state' = "Terminated"

(* C28: when the characters are exhausted, in whatever state, and
   token_start is an offset in front of the end of the source, the lexer
   first emits Text(token_start..|source|) and then EndOfFile(|source|);
   otherwise it emits EndOfFile(|source|) directly; EndOfFile is yielded at
   most once, the lexer is Terminated from then on and yields no token
   behind it. *)
C28_EndOfInput ==
    /\ [][EndOfInputStep]_vars
    /\ [](/\ Cardinality(EndsOfFile) <= 1
          /\ \A j \in EndsOfFile :
                /\ state = "Terminated"
                /\ out[j].tok.offset = str_len(source)
                /\ \A k \in (j + 1)..Len(out) : ~IsToken(out[k]))

\* the source has ended in the name of a call: the final Text and EndOfFile
\* have been yielded
C28_Witness ==
    /\ source = <<OPEN_FUNCTION, "a">>
    /\ Yielded = <<OffsetToken("BeginFunction", 0), RangeToken("Text", 1, 2),
                   OffsetToken("EndOfFile", 2)>>
    /\ LastRead.next_state = "ReadingCallName"
    /\ state = "Terminated"

----------------------------------------------------------------------------
\* the i-th scalar read is a "}" in the content of a function: Content is on
\* top of the stack and Function below it
ClosesFunctionContent(i) ==
    /\ seen[i].chr = CLOSE_FUNCTION
    /\ seen[i].state \in {"ReadingContent", "ReadingContentText"}
    /\ Len(StackBefore(i)) >= 3
    /\ StackBefore(i)[Len(StackBefore(i))] = "Content"
    /\ StackBefore(i)[Len(StackBefore(i)) - 1] = "Function"
\* the tokens the i-th scalar pushes in front of its last two
InFrontOfEnd(i) == SubSeq(seen[i].tokens, 1, Len(seen[i].tokens) - 2)

(* C29: a "}" that ends the content of a function emits EndContent and
   EndFunction, both with the offset of the "}", as the last two tokens of
   this one scalar, preceded by the pending Text that ends at the "}" when
   text was read (or by the BeginContent of a content that is empty), and
   pops both Content and Function from the scope stack. *)
C29_ClosesBothScopes ==
    \A i \in 1..Len(seen) :
        ClosesFunctionContent(i) =>
            LET o == seen[i].byte_offset
                n == Len(seen[i].tokens)
            IN /\ n >= 2
               /\ seen[i].tokens[n - 1] = OffsetToken("EndContent", o)
               /\ seen[i].tokens[n] = OffsetToken("EndFunction", o)
               /\ IF seen[i].state = "ReadingContentText"
                  THEN /\ n = 3
                       /\ seen[i].tokens[1].kind = "Text"
                       /\ seen[i].tokens[1].end = o
                  ELSE InFrontOfEnd(i) \in {<<>>, <<OffsetToken("BeginContent", o)>>}
               /\ seen[i].stack = SubSeq(StackBefore(i), 1, Len(StackBefore(i)) - 2)

\* the "}" behind the text of a content has closed the content and the call
C29_Witness ==
    /\ source = StemContent \o <<"a", CLOSE_FUNCTION>>
    /\ ClosesFunctionContent(Len(seen))
    /\ LastRead.tokens = <<RangeToken("Text", 3, 4), OffsetToken("EndContent", 4),
                           OffsetToken("EndFunction", 4)>>
    /\ stack = <<"Content">>

----------------------------------------------------------------------------
\* the i-th scalar read closes a call or a raw string: the last token it
\* pushes is EndFunction or EndRaw
ClosesConstruct(i) ==
    /\ seen[i].tokens # <<>>
    /\ seen[i].tokens[Len(seen[i].tokens)].kind \in {"EndFunction", "EndRaw"}
\* the state in which the scope on top of the stack s is read
ReadingStateOf(s) ==
    CASE s[Len(s)] = "Content" -> "ReadingContent"
      [] s[Len(s)] = "ArgumentValue" -> "ReadingArgumentValue"
      [] OTHER -> "Terminated"

(* C30: the scalar that closes a call (without arguments and content, with
   arguments only, or with content) or a raw string leaves Content or
   ArgumentValue on top of the scope stack and the lexer in ReadingContent
   or ReadingArgumentValue respectively, and the scalar behind it is read in
   that state. *)
C30_ResumesEnclosing ==
    \A i \in 1..Len(seen) :
        ClosesConstruct(i) =>
            /\ seen[i].stack # <<>>
            /\ seen[i].stack[Len(seen[i].stack)] \in {"Content", "ArgumentValue"}
            /\ seen[i].next_state = ReadingStateOf(seen[i].stack)
            /\ i < Len(seen) => seen[i + 1].state = ReadingStateOf(seen[i].stack)
            /\ i = Len(seen) => state \in {ReadingStateOf(seen[i].stack), "Terminated"}

\* a call has been closed inside an argument value and the scalar behind it
\* has been read as a part of the value
C30_Witness ==
    /\ source = StemNested \o <<CLOSE_FUNCTION, "a">>
    /\ Len(seen) = Len(source)
    /\ ClosesConstruct(Len(seen) - 1)
    /\ LastRead.state = "ReadingArgumentValue"
    /\ LastRead.next_state = "ReadingArgumentValueText"

----------------------------------------------------------------------------
\* the read of the whitespace that has opened the body of the raw string the
\* last scalar belongs to
BodySeparator ==
    LET starts == {j \in 1..(Len(seen) - 1) : seen[j].state = "StartRaw"}
    IN CHOOSE j \in starts : \A k \in starts : k <= j
\* the last scalar is the "}" that closes a raw string
ClosesRaw == LastReadIn("EndRaw") /\ LastRead.chr = CLOSE_FUNCTION

(* C31: in the body of a raw string a scalar other than ">" resets the
   counter of ">" and the lexer goes on reading the body; the Text emitted
   by the closing "}" spans from the first scalar behind the separating
   whitespace to the start of the closing run of ">", which is as long as
   the opening run and has no ">" in front of it, and EndRaw spans this
   run. *)
C31_RawBody ==
    /\ (LastReadIn("ReadingRaw") /\ LastRead.chr # CLOSE_RAW) =>
          /\ raw_delimiter_read = 0
          /\ LastRead.next_state = "ReadingRaw"
    /\ ClosesRaw =>
          LET ws == BodySeparator
              k == OpeningRun(ws)
              close == Len(seen) - k
          IN /\ close > ws
             /\ \A m \in close..(Len(seen) - 1) : seen[m].chr = CLOSE_RAW
             /\ close - 1 > ws => seen[close - 1].chr # CLOSE_RAW
             /\ LastRead.tokens
                  = <<RangeToken("Text", seen[ws + 1].byte_offset, seen[close].byte_offset),
                      RangeToken("EndRaw", seen[close].byte_offset, LastRead.byte_offset)>>

\* a raw string with a delimiter of two has been closed behind a body that
\* holds a single ">"
C31_Witness ==
    /\ source = StemRawTwo \o <<CLOSE_RAW, CLOSE_RAW, CLOSE_FUNCTION>>
    /\ ClosesRaw
    /\ LastRead.tokens = <<RangeToken("Text", 4, 6), RangeToken("EndRaw", 6, 8)>>

----------------------------------------------------------------------------
\* the scope the i-th scalar is read in, by the state of the lexer
ScopeRead(i) ==
    CASE seen[i].state \in {"ReadingArgumentValue", "ReadingArgumentValueText"} -> "ArgumentValue"
      [] seen[i].state \in {"ReadingContent", "ReadingContentText"} -> "Content"
      [] OTHER -> "None"
\* the scalars that are syntactic in a scope, and the token that begins it
SyntacticIn(scope) ==
    IF scope = "ArgumentValue" THEN {OPEN_FUNCTION, CLOSE_ARG}
                               ELSE {OPEN_FUNCTION, CLOSE_FUNCTION}
BeginOf(scope) == IF scope = "ArgumentValue" THEN "BeginArgValue" ELSE "BeginContent"
TextStateOf(scope) ==
    IF scope = "ArgumentValue" THEN "ReadingArgumentValueText" ELSE "ReadingContentText"
\* the i-th scalar is read in an argument value or a content and is not
\* syntactic there
LiteralRead(i) ==
    /\ i >= 1
    /\ ScopeRead(i) # "None"
    /\ seen[i].chr \notin SyntacticIn(ScopeRead(i))
\* the first scalar of the run of literal scalars that ends with the i-th
LiteralRunStart(i) ==
    CHOOSE j \in 1..i :
        /\ \A m \in j..i : LiteralRead(m)
        /\ ~LiteralRead(j - 1)

(* C32: a scalar read in an argument value or a content is read with that
   scope on top of the stack; if it is not "{" or "]" in an argument value
   (so a "}" there), and not "{" or "}" in a content (so "[", "]", "=", "<",
   ">" there), it changes neither the stack nor anything but the state to
   the text state of the scope, emits at most the token that begins the
   scope, and is a part of the Text that the next syntactic scalar emits,
   which spans the whole run of such scalars. *)
C32_ScopeSensitive ==
    LET n == Len(seen)
    IN (n > 0 /\ ScopeRead(n) # "None") =>
          /\ StackBefore(n)[Len(StackBefore(n))] = ScopeRead(n)
          /\ LiteralRead(n) =>
                /\ recorded = None
                /\ LastRead.stack = StackBefore(n)
                /\ LastRead.next_state = TextStateOf(ScopeRead(n))
                /\ LastRead.tokens
                     \in {<<>>, <<OffsetToken(BeginOf(ScopeRead(n)), LastRead.byte_offset)>>}
          /\ (~LiteralRead(n) /\ LiteralRead(n - 1)) =>
                /\ ScopeRead(n - 1) = ScopeRead(n)
                /\ LastRead.tokens # <<>>
                /\ LastRead.tokens[1]
                     = RangeToken("Text", seen[LiteralRunStart(n - 1)].byte_offset,
                                  LastRead.byte_offset)

\* a "}" in an argument value has become its text
C32_Witness ==
    /\ source = StemArgumentValue \o <<CLOSE_FUNCTION, OPEN_ARG, CLOSE_ARG>>
    /\ Len(seen) = Len(source)
    /\ LastRead.tokens = <<RangeToken("Text", 5, 7), OffsetToken("EndArgValue", 7)>>
    /\ LastRead.stack = <<"Content", "Function">>

----------------------------------------------------------------------------
\* the pairs (scope below, scope above) that pop_scope has an arm for, as
\* (new top, popped)
Stackable ==
    {<<"Function", "ArgumentValue">>, <<"Function", "Content">>,
     <<"ArgumentValue", "Function">>, <<"Content", "Function">>,
     <<"Content", "RawString">>, <<"ArgumentValue", "RawString">>}
\* a stack every pop of which finds such a pair, down to the initial Content
WellStacked(s) ==
    s # <<>> =>
        /\ s[1] = "Content"
        /\ \A i \in 2..Len(s) : <<s[i - 1], s[i]>> \in Stackable

(* C33: pop_scope never reaches its panic arm: the scope stack always
   starts with the initial Content and every scope on it lies on a scope
   that pop_scope has an arm for, or the stack is empty, and then the lexer
   has terminated with UnbalancedParentheses. *)
C33_NoPanic ==
    /\ ~panicked
    /\ WellStacked(stack)
    /\ stack = <<>> =>
          /\ state = "Terminated"
          /\ is_some(recorded)
          /\ recorded.val.kind = "UnbalancedParentheses"

\* a call with content inside an argument value, the value and the outer
\* call have been closed: four of the arms of pop_scope have been taken
C33_Witness ==
    /\ source = StemNested \o <<CLOSE_FUNCTION, CLOSE_ARG, CLOSE_FUNCTION>>
    /\ Len(seen) = Len(source)
    /\ seen[Len(seen) - 3].stack = <<"Content", "Function", "ArgumentValue", "Function", "Content">>
    /\ stack = <<"Content">>
    /\ ~panicked
    /\ recorded = None

----------------------------------------------------------------------------
\* the token that begins what an End token ends
BeginFor(kind) ==
    CASE kind = "EndFunction" -> "BeginFunction"
      [] kind = "EndContent" -> "BeginContent"
      [] kind = "EndArgValue" -> "BeginArgValue"
      [] kind = "EndArgs" -> "BeginArgs"
      [] kind = "EndRaw" -> "BeginRaw"
BeginKinds == {"BeginFunction", "BeginContent", "BeginArgValue", "BeginArgs", "BeginRaw"}
EndKinds == {"EndFunction", "EndContent", "EndArgValue", "EndArgs", "EndRaw"}
Unnested == <<"Unnested">>
\* the Begin tokens that are open behind the first n tokens, the last opened
\* last; Unnested when an End token has not met its Begin on top of them
RECURSIVE OpenBehind(_, _)
OpenBehind(tokens, n) ==
    IF n = 0 THEN <<>>
    ELSE LET open == OpenBehind(tokens, n - 1)
             kind == tokens[n].kind
         IN IF open = Unnested THEN Unnested
            ELSE IF kind \in BeginKinds THEN Append(open, kind)
            ELSE IF kind \in EndKinds
            THEN IF open # <<>> /\ open[Len(open)] = BeginFor(kind)
                 THEN SubSeq(open, 1, Len(open) - 1)
                 ELSE Unnested
            ELSE open

(* C34: as long as the lexer has recorded no error, the Begin and End tokens
   it has yielded are well nested: every EndFunction, EndContent,
   EndArgValue, EndArgs and EndRaw ends the Begin token of its kind that was
   opened last and is still open. *)
C34_WellNested ==
    recorded = None => OpenBehind(Yielded, Len(Yielded)) # Unnested

\* a call with an argument and a content has been yielded to its end
C34_Witness ==
    /\ source = StemArgumentClosed \o <<" ", "a", CLOSE_FUNCTION>>
    /\ recorded = None
    /\ Len(Yielded) = 14
    /\ Yielded[14].kind = "EndOfFile"
    /\ OpenBehind(Yielded, 13) = <<>>
    /\ OpenBehind(Yielded, 10) = <<"BeginFunction", "BeginContent">>

----------------------------------------------------------------------------
\* the input has ended without an error of the lexer and with every scope
\* but the initial Content closed, and the parser has run on the tokens
BalancedAndParsed ==
    /\ is_some(consumed)
    /\ recorded = None
    /\ stack = <<"Content">>

(* C35: when the lexer has recorded no error and its scope stack holds only
   the initial Content at the end of the input, consume_iter returns Ok for
   the tokens of the lexer. *)
C35_LexerParserAgreement ==
    BalancedAndParsed => consumed.val = ResultOk

\* a raw string has been lexed to its end and parsed
C35_Witness ==
    /\ source = StemRawText \o <<CLOSE_RAW, CLOSE_FUNCTION>>
    /\ BalancedAndParsed
    /\ consumed = Some(ResultOk)
    /\ Len(tree) = 1

----------------------------------------------------------------------------
\* the input has ended without an error of the lexer while a scope above the
\* initial Content was open, and the parser has run on the tokens
UnclosedAndParsed ==
    /\ is_some(consumed)
    /\ recorded = None
    /\ Len(stack) > 1

(* C36: when the input ends while the scope stack of the lexer holds more
   than the initial Content, consume_iter returns an error. *)
C36_UnclosedScope ==
    UnclosedAndParsed => consumed.val # ResultOk

\* the input has ended in the content of a call inside an argument value and
\* the parser has failed
C36_Witness ==
    /\ source = StemNested
    /\ UnclosedAndParsed
    /\ stack = <<"Content", "Function", "ArgumentValue", "Function", "Content">>
    /\ consumed.val.tag = "Err"

----------------------------------------------------------------------------
\* the position of the Err item among the items of next()
ErrIndex == CHOOSE j \in 1..Len(out) : IsErr(out[j])
\* the lexer has recorded an error and the parser has run on its items
FailedAndParsed == is_some(consumed) /\ is_some(recorded)

(* C37: on a source on which the lexer records an error consume_iter
   returns Err, never Ok: when the last item the parser has pulled is the
   Err item of the lexer, the error returned is that of the lexer,
   unchanged; otherwise the parser has failed on a token in front of the
   Err item. *)
C37_LexerErrorPropagates ==
    FailedAndParsed =>
        /\ consumed.val.tag = "Err"
        /\ \E j \in 1..Len(out) : IsErr(out[j])
        /\ out[ErrIndex].err = recorded.val
        /\ IF pulled = ErrIndex
           THEN consumed.val.err = recorded.val
           ELSE /\ pulled >= 1
                /\ pulled < ErrIndex
                /\ IsToken(out[pulled])
                /\ consumed.val.err.kind = "UnexpectedToken"
                /\ consumed.val.err.tok = out[pulled].tok

\* the parser has pulled the InvalidSyntax of a bad character behind a
\* closed argument and returned it
C37_Witness ==
    /\ source = StemArgumentClosed \o <<"a">>
    /\ FailedAndParsed
    /\ pulled = ErrIndex
    /\ consumed = Some(ResultErr(InvalidSyntax(MsgAfterArgs, 7)))

----------------------------------------------------------------------------
\* the scalars of a sequence
Scalars(s) == {s[i] : i \in 1..Len(s)}

(* C38: every ArgKey token of the lexer denotes a slice of the source that
   is not empty and holds no "="; so no key of the source is the reserved
   key "=whitespace", and in the args of a parsed call every key of the
   source is present beside "=whitespace". *)
C38_ArgumentKeys ==
    LET yielded == Yielded
    IN /\ \A j \in 1..Len(yielded) :
             yielded[j].kind = "ArgKey" =>
                 /\ can_slice(yielded[j])
                 /\ yielded[j].start < yielded[j].end
                 /\ ASSIGN \notin Scalars(source_code(yielded[j]))
                 /\ source_code(yielded[j]) # WhitespaceKey
       /\ (consumed = Some(ResultOk) /\ Len(yielded) >= 1
             /\ yielded[1].kind = "BeginFunction") =>
             \A j \in FirstCallKeys :
                 source_code(yielded[j]) \in DOMAIN tree[1].args \ {WhitespaceKey}

\* a call with the argument k and a whitespace has been parsed: its args
\* hold k and "=whitespace"
C38_Witness ==
    /\ source = StemArgumentClosed \o <<" ", CLOSE_FUNCTION>>
    /\ consumed = Some(ResultOk)
    /\ DOMAIN tree[1].args = {<<"k">>, WhitespaceKey}
    /\ tree[1].args[WhitespaceKey] = <<Text(<<" ">>)>>

----------------------------------------------------------------------------
(* Termination: the lexer and the parser run on, step by step, as long as a
   step is possible *)
\* a text and the opening of a raw string: the tail can close it
StemTextRaw == <<"a", "a", "{", "<", " ">>
TerminationStems == {StemTextRaw, StemArgumentValue}
TerminationInit ==
    /\ source \in TerminationStems
    /\ drawn = 0
    /\ closed = FALSE
    /\ chars = [index |-> 1, front_offset |-> 0]
    /\ state = NewIterator.state
    /\ token_start = NewIterator.token_start
    /\ token_function_start = NewIterator.token_function_start
    /\ token_rawcontent_start = NewIterator.token_rawcontent_start
    /\ raw_delimiter_length = NewIterator.raw_delimiter_length
    /\ raw_delimiter_read = NewIterator.raw_delimiter_read
    /\ stack = NewIterator.stack
    /\ next_tokens = NewIterator.next_tokens
    /\ occured_error = NewIterator.occured_error
    /\ panicked = NewIterator.panicked
    /\ in_next = FALSE
    /\ out = <<>>
    /\ seen = <<>>
    /\ queued = <<>>
    /\ recorded = None
    /\ tree = <<>>
    /\ consumed = None
    /\ pulled = 0
    /\ line_source = <<>>
    /\ line_start = 0
    /\ lines = <<>>
    /\ located = None
    /\ displayed = None
TerminationSpec == TerminationInit /\ [][Next]_vars /\ WF_vars(Next)

\* next() has returned None, or consume_iter has returned
Finished == is_some(consumed) \/ (Len(out) > 0 /\ IsNone(out[Len(out)]))

\* an iteration of the loop of next() that yields no item has read a scalar,
\* or has met the end of the input and queued the final Text
LoopProgress ==
    (in_next' /\ ~panicked') =>
        \/ chars'.index = chars.index + 1
        \/ ~closed /\ closed' /\ next_tokens' # <<>>

(* C39: every call of next() returns and the iterator comes to its None (or,
   when the parser pulls the items, consume_iter returns): from some point
   on no call of next() is running and None or the result of consume_iter
   has been returned; the loop of next() does not go round without reading
   a scalar or queueing a token; and consume_iter pulls no more items than
   next() has yielded. *)
C39_Termination ==
    /\ <>[](Finished /\ ~in_next)
    /\ [][LoopProgress]_vars
    /\ [](is_some(consumed) => pulled <= Len(out))

\* the first call of next() has read three scalars before it returned the
\* Text; the calls behind it have returned the tokens of the open raw string,
\* EndOfFile and None
C39_Witness ==
    /\ source = StemTextRaw
    /\ out = <<OkItem(RangeToken("Text", 0, 2)), OkItem(RangeToken("BeginRaw", 3, 4)),
               OkItem(WhitespaceToken(4, " ")), OkItem(OffsetToken("EndOfFile", 5)),
               NoneItem>>


(* EndOfFile and a lexer error exclude each other *)
\* next() has yielded the EndOfFile token
YieldedEndOfFile == \E i \in 1..Len(out) : IsEndOfFile(out[i])

\* next() has yielded an Err item
YieldedErr == \E i \in 1..Len(out) : IsErr(out[i])

(* C40: EndOfFile and a lexer error exclude each other. Whenever an error is
   recorded the state is Terminated; the scalar that recorded it is the last
   scalar read, and the error carries its byte offset; no run yields both
   the EndOfFile token and an Err item. *)
C40_EndOfFileOrError ==
    /\ is_some(occured_error) => state = "Terminated"
    /\ is_some(recorded) =>
          /\ state = "Terminated"
          /\ Len(seen) > 0
          /\ LastRead.next_state = "Terminated"
          /\ LastRead.byte_offset = recorded.val.offset
          /\ chars.index = Len(seen) + 1
          /\ ~YieldedEndOfFile
    /\ YieldedEndOfFile => ~YieldedErr /\ ~is_some(recorded)

\* `{a[k=v]a`: the "a" behind "]" is an error; the tokens in front of it, the
\* Err and None have been yielded, EndOfFile has not
C40_Witness ==
    /\ source = StemArgumentClosed \o <<"a">>
    /\ recorded = Some(InvalidSyntax(MsgAfterArgs, 7))
    /\ state = "Terminated"
    /\ Len(out) >= 2
    /\ out[Len(out) - 1] = ErrItem(InvalidSyntax(MsgAfterArgs, 7))
    /\ IsNone(out[Len(out)])
    /\ ~YieldedEndOfFile

====
